---- MODULE Spec2Model ----
(***************************************************************************)
(* A model of the summarization server: the provider adapters              *)
(* (AnthropicModel, OpenAICompatible, OpenAIModel, GeminiModel), the       *)
(* SummarizationService with its content cache and sweep timer, and the    *)
(* McpServer tool handlers that call it.                                   *)
(*                                                                         *)
(* JavaScript runs one callback at a time: every action below is one       *)
(* synchronous stretch of code, from a call or a resumed await up to the   *)
(* next await that really suspends (an upstream fetch, or the await in     *)
(* SummarizationService.cleanup).                                          *)
(***************************************************************************)
EXTENDS Integers, Sequences, FiniteSets, TLC

VARIABLES
    provider,       \* which adapter class initializeModel instantiated
    adapterConfig,  \* the adapter's `config` field: <<>> is null, <<c>> is c
    lifecycle,      \* history: "Uninitialized", "Ready" or "Closed" (spec 4.2)
    everReady,      \* history: whether some initialize has succeeded
    initCall,       \* history: the last initialize call, <<>> before the first
    adapterCall,    \* a summarize call made on the adapter directly
    promptCall,     \* a constructPrompt call: <<>>, or <<arguments, result>>
    main,           \* main() of index.ts: where it is, its environment, how it ended
    svc,            \* "none" before the constructor ran, then "constructed" or "failed"
    svcError,       \* the message of the error the constructor threw, "" if none
    svcConfig,      \* SummarizationService.config: <<>> before the constructor ran
    svcModelConfig, \* SummarizationService.config.model
    charThreshold,  \* SummarizationService.charThreshold
    cacheMaxAge,    \* SummarizationService.cacheMaxAge
    contentCache,   \* SummarizationService.contentCache: id -> CacheEntry
    timerActive,    \* whether cleanupInterval is scheduled
    nextSweep,      \* the earliest time the interval timer may fire next
    nextUuid,       \* how many ids uuidv4() has produced, plus one
    noSweepCache,   \* the Map of a second cache, whose interval timer never fires
    listing,        \* the last summarize_directory listing: <<>>, or <<its record>>
    now,            \* Date.now()
    tasks,          \* the tool calls: one record per call
    cleanupPending, \* cleanup() calls suspended at `await this.model.cleanup()`
    cleanupDone     \* cleanup() calls that have returned

adapterVars == <<provider, adapterConfig, lifecycle, everReady>>
callVars == <<promptCall, main, noSweepCache, listing>>
directVars == <<initCall, adapterCall, callVars>>
configVars == <<svc, svcError, svcConfig, svcModelConfig, charThreshold, cacheMaxAge>>
cacheVars == <<contentCache, nextUuid>>
timerVars == <<timerActive, nextSweep>>
cleanupVars == <<cleanupPending, cleanupDone>>

vars == <<adapterVars, directVars, configVars, cacheVars, timerVars, cleanupVars, now, tasks>>

(***************************************************************************)
(* Bounds of the model.                                                    *)
(***************************************************************************)
MaxLen == 2
MaxTasks == 2
MaxTime == 2
MaxCleanups == 1

(***************************************************************************)
(* Values.                                                                 *)
(***************************************************************************)
\* JavaScript's undefined, also as `${undefined}` prints it
undefined == "undefined"
null == "null"

DefaultCharThreshold == 512
DefaultCacheMaxAge == 3600000
DefaultMaxTokens == 1024

Providers == {"ANTHROPIC", "OPENAI", "OPENAI-COMPATIBLE", "GOOGLE"}

RECURSIVE Repeat(_, _)
Repeat(c, n) == IF n = 0 THEN "" ELSE c \o Repeat(c, n - 1)

\* the contents a tool call can gather: every length from 0 to MaxLen
Contents == { Repeat("A", n) : n \in 0..MaxLen }

\* SummarizationOptions as the handlers build them: both fields, possibly undefined
NoOptions == [hint |-> undefined, output_format |-> undefined]

SomeOptions == [hint |-> "security_analysis", output_format |-> "json"]

Tools == {"summarize_command", "summarize_files", "summarize_directory", "summarize_text"}

\* the tool calls a client makes: every tool without options, one with both options
ToolCalls ==
    { [tool |-> tool, options |-> NoOptions] : tool \in Tools }
    \cup { [tool |-> "summarize_text", options |-> SomeOptions] }

Tasks == 1..MaxTasks

\* ModelConfig values handed to initialize: an optional number is <<>> or <<n>>
ModelConfigs ==
    { [apiKey |-> "key", model |-> undefined, maxTokens |-> <<>>],
      [apiKey |-> "",    model |-> undefined, maxTokens |-> <<>>] }

\* SummarizationConfig.charThreshold and .cacheMaxAge as configured
CharThresholds == { <<>>, <<1>> }
CacheMaxAges == { <<-1>>, <<0>>, <<1>> }

\* SummarizationConfig values handed to the constructor
SummarizationConfigs ==
    [model : ModelConfigs, charThreshold : CharThresholds, cacheMaxAge : CacheMaxAges]

\* a server started with SUMMARIZATION_CHAR_THRESHOLD=-1: parseInt gives -1,
\* which `|| 512` keeps
NegativeThresholdConfigs ==
    [model : ModelConfigs, charThreshold : {<<-1>>}, cacheMaxAge : {<<1>>}]

\* what the upstream provider can answer to one request
Responses ==
    { [kind |-> "response", ok |-> TRUE,  status |-> 200, statusText |-> "OK",
       errmsg |-> undefined, shape |-> "good", text |-> "SUMMARY"],
      [kind |-> "response", ok |-> FALSE, status |-> 400, statusText |-> "Bad Request",
       errmsg |-> "API error", shape |-> "good", text |-> undefined],
      [kind |-> "reject",   ok |-> FALSE, status |-> 0,   statusText |-> "",
       errmsg |-> "socket hang up", shape |-> "good", text |-> undefined] }

\* the configurations handed to an adapter's initialize directly
InitConfigs ==
    [apiKey : {"key", ""},
     model : {undefined, "m", " "},
     maxTokens : {<<>>, <<[whole |-> 1, half |-> FALSE]>>, <<[whole |-> 0, half |-> FALSE]>>,
                  <<[whole |-> -1, half |-> FALSE]>>, <<[whole |-> 1, half |-> TRUE]>>}]

\* what the upstream can answer to a request made by an adapter used directly:
\* shape "empty" is an empty content/choices/candidates array, shape "nontext" a
\* first block whose type is not "text"; text undefined is a first element
\* without the summary field; errmsg undefined a body without error.message
AdapterResponses ==
    Responses \cup
    { [kind |-> "response", ok |-> FALSE, status |-> 500, statusText |-> "Server Error",
       errmsg |-> undefined, shape |-> "good", text |-> undefined],
      [kind |-> "response", ok |-> TRUE, status |-> 200, statusText |-> "OK",
       errmsg |-> undefined, shape |-> "empty", text |-> undefined],
      [kind |-> "response", ok |-> TRUE, status |-> 200, statusText |-> "OK",
       errmsg |-> undefined, shape |-> "good", text |-> undefined],
      [kind |-> "response", ok |-> TRUE, status |-> 200, statusText |-> "OK",
       errmsg |-> undefined, shape |-> "good", text |-> ""],
      [kind |-> "response", ok |-> TRUE, status |-> 200, statusText |-> "OK",
       errmsg |-> undefined, shape |-> "nontext", text |-> "SUMMARY"] }

(***************************************************************************)
(* JavaScript helpers.                                                     *)
(***************************************************************************)
\* !s for a string-or-undefined value
Falsy(s) == s = undefined \/ s = ""

\* !s.trim() for the model names of ModelConfigs
IsBlank(s) == s \in {"", " ", "  "}

\* x !== undefined ? x : d, for an optional number
OrDefault(x, d) == IF x = <<>> THEN d ELSE x[1]

\* the maxTokens values: Num(n) is the integer n, Half(n) is n + 0.5
Num(n) == [whole |-> n, half |-> FALSE]

Half(n) == [whole |-> n, half |-> TRUE]

\* Number.isInteger(x)
NumberIsInteger(x) == ~x.half

\* x <= 0
NonPositive(x) == x.whole < 0 \/ (x.whole = 0 /\ ~x.half)

\* x || d, for an optional number: 0 is falsy as well
OrTruthy(x, d) == IF x = <<>> \/ x = <<0>> THEN d ELSE x[1]

(***************************************************************************)
(* The provider adapters.                                                  *)
(***************************************************************************)
DefaultModel(p) ==
    CASE p = "ANTHROPIC" -> "claude-3-5-sonnet-20241022"
      [] p = "GOOGLE"    -> "gemini-1.5-flash"
      [] OTHER           -> "gpt-4o-mini"

ApiKeyRequired(p) ==
    CASE p = "ANTHROPIC" -> "API key is required for Anthropic model"
      [] p = "GOOGLE"    -> "API key is required for Gemini model"
      [] OTHER           -> "API key is required for OpenAI compatible models"

\* the maxTokens test of initialize: AnthropicModel tests
\* !Number.isInteger(maxTokens) || maxTokens <= 0, OpenAICompatible and
\* GeminiModel test typeof maxTokens !== 'number' || maxTokens <= 0
InvalidMaxTokens(p, maxTokens) ==
    IF p = "ANTHROPIC"
    THEN ~NumberIsInteger(maxTokens) \/ NonPositive(maxTokens)
    ELSE NonPositive(maxTokens)

\* the baseUrl field of the adapter class p, a constant of the class
BaseUrl(p) ==
    CASE p = "ANTHROPIC" -> "https://api.anthropic.com/v1/messages"
      [] p = "GOOGLE" -> "https://generativelanguage.googleapis.com/v1beta/models"
      [] OTHER -> "https://api.openai.com/v1"

\* the URL summarize of the adapter class p passes to fetch when this.config
\* is config
RequestUrl(p, config) ==
    CASE p = "ANTHROPIC" -> BaseUrl(p)
      [] p = "GOOGLE" ->
            BaseUrl(p) \o "/" \o config.model \o ":generateContent?key=" \o config.apiKey
      [] OTHER -> BaseUrl(p) \o "/chat/completions"

\* initialize(config) of the adapter class p: the error it throws, or the
\* value it assigns to this.config
InitializeResult(p, config) ==
    LET model == IF Falsy(config.model) THEN DefaultModel(p) ELSE config.model
        maxTokens == OrDefault(config.maxTokens, Num(DefaultMaxTokens))
    IN  IF Falsy(config.apiKey)
        THEN [ok |-> FALSE, error |-> ApiKeyRequired(p), config |-> <<>>]
        ELSE IF IsBlank(model)
        THEN [ok |-> FALSE, error |-> "Invalid model name", config |-> <<>>]
        ELSE IF InvalidMaxTokens(p, maxTokens)
        THEN [ok |-> FALSE, error |-> "Invalid max tokens value", config |-> <<>>]
        ELSE [ok |-> TRUE, error |-> "",
              config |-> <<[apiKey |-> config.apiKey, model |-> model,
                            maxTokens |-> maxTokens]>>]

\* a summarize that never tests this.config
IsInitializedUnchecked(config) == TRUE

\* the guard of every adapter's summarize: this.config is not null
IsInitialized(config) == config # <<>>

\* the error of summarize when this.config is null
NotInitializedError(p) ==
    IF p = "ANTHROPIC" THEN "Anthropic model not initialized" ELSE "Model not initialized"

\* cleanup() of the adapter class p: the value of this.config afterwards
AdapterCleanup(p, config) ==
    IF p = "ANTHROPIC" THEN <<>> ELSE config

\* the options the adapter's summarize works with: OpenAIModel.summarize calls
\* super.summarize(content, type), AnthropicModel.summarize takes none
AdapterOptions(p, options) ==
    IF p \in {"OPENAI-COMPATIBLE", "GOOGLE"} THEN options ELSE NoOptions

\* AnthropicModel.summarize after the fetch: the summary or the error thrown
AnthropicOutcome(resp) ==
    LET wrap(m) == [ok |-> FALSE, value |-> "Anthropic summarization failed: " \o m]
    IN  IF resp.kind = "reject"
        THEN wrap("Network error: " \o resp.errmsg)
        ELSE IF ~resp.ok
        THEN wrap(IF Falsy(resp.errmsg)
                  THEN "HTTP error " \o ToString(resp.status)
                  ELSE resp.errmsg)
        ELSE IF resp.shape = "empty" \/ Falsy(resp.text)
        THEN wrap("Unexpected response format from Anthropic API")
        ELSE [ok |-> TRUE, value |-> resp.text]

\* OpenAICompatible.summarize after the fetch
OpenAIOutcome(resp) ==
    IF resp.kind = "reject"
    THEN [ok |-> FALSE, value |-> resp.errmsg]
    ELSE IF ~resp.ok
    THEN [ok |-> FALSE,
          value |-> "API request failed with status " \o ToString(resp.status)]
    ELSE IF resp.shape = "empty"
    THEN [ok |-> FALSE, value |-> "No summary was returned from the API"]
    ELSE [ok |-> TRUE, value |-> resp.text]

\* GeminiModel.summarize after the fetch
GeminiOutcome(resp) ==
    IF resp.kind = "reject"
    THEN [ok |-> FALSE, value |-> resp.errmsg]
    ELSE IF ~resp.ok
    THEN [ok |-> FALSE, value |-> "Failed to fetch summary: " \o resp.statusText]
    ELSE IF resp.shape = "empty"
    THEN [ok |-> FALSE, value |-> "TypeError: cannot read properties of undefined"]
    ELSE [ok |-> TRUE, value |-> resp.text]

SummarizeOutcome(p, resp) ==
    CASE p = "ANTHROPIC" -> AnthropicOutcome(resp)
      [] p = "GOOGLE"    -> GeminiOutcome(resp)
      [] OTHER           -> OpenAIOutcome(resp)

(***************************************************************************)
(* constructPrompt.                                                        *)
(***************************************************************************)
\* the keys of hintInstructions
HintKeys ==
    {"security_analysis", "api_surface", "error_handling", "dependencies",
     "type_definitions"}

\* the keys of formatInstructions
FormatKeys == {"json", "markdown", "outline"}

\* a key every object literal inherits from Object.prototype: obj[key] is a
\* function, which is truthy and prints as this text
PrototypeKeys == {"constructor"}

NativeFunctionText == "function Object() { [native code] }"

\* hintInstructions[hint] || '' and formatInstructions[output_format] || ''
LookupOrEmpty(keys, key) ==
    IF key \in keys THEN "instructions for " \o key
    ELSE IF key \in PrototypeKeys THEN NativeFunctionText
    ELSE ""

getHintInstructions(hint) ==
    IF Falsy(hint) THEN "" ELSE LookupOrEmpty(HintKeys, hint)

getFormatInstructions(output_format) ==
    IF Falsy(output_format) \/ output_format = "text"
    THEN ""
    ELSE LookupOrEmpty(FormatKeys, output_format)

getBaseSummarizationInstructions(type) ==
    "Summarize the following " \o type \o " ... maintain technical accuracy."

\* parts.filter(Boolean).join('\n\n')
RECURSIVE JoinTruthy(_)
JoinTruthy(parts) ==
    IF parts = <<>> THEN ""
    ELSE LET rest == JoinTruthy(Tail(parts))
         IN  IF Head(parts) = "" THEN rest
             ELSE IF rest = "" THEN Head(parts)
             ELSE Head(parts) \o "\n\n" \o rest

constructFullInstructions(type, options) ==
    JoinTruthy(<<getBaseSummarizationInstructions(type),
                 getHintInstructions(options.hint),
                 getFormatInstructions(options.output_format)>>)

createAnthropicPrompt(content, type, options) ==
    [format |-> "anthropic",
     messages |-> <<[role |-> "user",
                     content |-> constructFullInstructions(type, options)
                                   \o "\n\n" \o content \o "\n\nSummary:"]>>]

createOpenAIPrompt(content, type, options) ==
    [format |-> "openai",
     messages |-> <<[role |-> "system",
                     content |-> "You are a helpful assistant that summarizes "
                                   \o type \o " content."
                                   \o (IF Falsy(options.hint) THEN ""
                                       ELSE " You specialize in " \o options.hint
                                              \o " analysis.")],
                    [role |-> "user",
                     content |-> constructFullInstructions(type, options)
                                   \o "\n\n" \o content]>>]

createGeminiPrompt(content, type, options) ==
    [format |-> "gemini",
     messages |-> <<[role |-> "user",
                     content |-> constructFullInstructions(type, options)
                                   \o "\n\n" \o content]>>]

constructPrompt(format, content, type, options) ==
    CASE format = "anthropic" -> createAnthropicPrompt(content, type, options)
      [] format = "openai"    -> createOpenAIPrompt(content, type, options)
      [] format = "gemini"    -> createGeminiPrompt(content, type, options)

\* the arguments constructPrompt is called with
PromptFormats == {"anthropic", "openai", "gemini"}

HintValues == HintKeys \cup PrototypeKeys \cup {undefined, "", "performance"}

OutputFormatValues == FormatKeys \cup PrototypeKeys \cup {undefined, "text", "yaml"}

PromptArguments ==
    [format : PromptFormats, content : Contents, type : {"code"},
     options : [hint : HintValues, output_format : OutputFormatValues]]

(***************************************************************************)
(* SummarizationService: the cache and maybeSummarize.                     *)
(***************************************************************************)
\* an id generator that hands out one id again and again
uuidv4Same(n) == "uuid-1"

\* uuidv4(): the n-th identifier it produces; no two are equal
uuidv4(n) == "uuid-" \o ToString(n)

\* an id that another SummarizationService instance issued
ForeignId == "uuid-of-another-instance"

\* the ids a caller may ask for: every id that can be issued, "undefined", and
\* the id of another instance
QueryIds == { uuidv4(n) : n \in 1..MaxTasks } \cup {undefined, ForeignId}

\* an expiry test that already expires an entry at the age maxAge
IsExpiredAtMaxAge(entry, t, maxAge) == t - entry.timestamp >= maxAge

\* the expiry test of cleanupCache and getFullContent
IsExpired(entry, t, maxAge) == t - entry.timestamp > maxAge

\* storeContent: the cache after this.contentCache.set(id, {content, timestamp})
storeContent(cache, id, content, t) ==
    [i \in DOMAIN cache \cup {id} |->
        IF i = id THEN [content |-> content, timestamp |-> t] ELSE cache[i]]

\* contentCache.delete(id)
CacheDelete(cache, id) == [i \in DOMAIN cache \ {id} |-> cache[i]]

\* a lookup that answers an id it does not hold with some entry it holds
getFullContentAny(cache, id, t, maxAge) ==
    IF id \in DOMAIN cache
    THEN (IF t - cache[id].timestamp > maxAge THEN <<>> ELSE <<cache[id].content>>)
    ELSE IF DOMAIN cache = {} THEN <<>>
    ELSE <<cache[CHOOSE i \in DOMAIN cache : TRUE].content>>

\* a getFullContent without the expiry check
getFullContentNoExpiry(cache, id, t, maxAge) ==
    IF id \notin DOMAIN cache THEN <<>> ELSE <<cache[id].content>>

\* getFullContent: what it returns, <<>> for null
getFullContent(cache, id, t, maxAge) ==
    IF id \notin DOMAIN cache THEN <<>>
    ELSE IF IsExpired(cache[id], t, maxAge) THEN <<>>
    ELSE <<cache[id].content>>

\* a getFullContent that drops every expired entry when the one asked for is
\* expired
getFullContentCacheSweep(cache, id, t, maxAge) ==
    IF id \in DOMAIN cache /\ IsExpired(cache[id], t, maxAge)
    THEN [i \in { j \in DOMAIN cache : ~IsExpired(cache[j], t, maxAge) } |-> cache[i]]
    ELSE cache

\* a getFullContent whose successful read renews the entry's timestamp
getFullContentCacheTouch(cache, id, t, maxAge) ==
    IF id \notin DOMAIN cache THEN cache
    ELSE IF IsExpired(cache[id], t, maxAge) THEN CacheDelete(cache, id)
    ELSE [cache EXCEPT ![id].timestamp = t]

\* getFullContent: the cache it leaves
getFullContentCache(cache, id, t, maxAge) ==
    IF id \in DOMAIN cache /\ IsExpired(cache[id], t, maxAge)
    THEN CacheDelete(cache, id)
    ELSE cache

\* a sweep that evicts from the age of maxAge on
cleanupCacheAtMaxAge(cache, t, maxAge) ==
    [i \in { j \in DOMAIN cache : t - cache[j].timestamp < maxAge } |-> cache[i]]

\* cleanupCache: the cache the sweep leaves
cleanupCache(cache, t, maxAge) ==
    [i \in { j \in DOMAIN cache : ~IsExpired(cache[j], t, maxAge) } |-> cache[i]]

\* a threshold test that summarizes content of exactly the threshold's length
BelowThresholdStrict(content, threshold) == Len(content) < threshold

\* the threshold test of maybeSummarize
BelowThreshold(content, threshold) == Len(content) <= threshold

\* a maybeSummarize that caches the summary
ContentToStoreSummary(content, summary) == summary

\* what maybeSummarize hands to storeContent: the content, not the summary
ContentToStore(content, summary) == content

\* the arguments of this.model.summarize(content, type) in maybeSummarize
SummarizeArgs(content, type, options) ==
    [content |-> content, type |-> type, options |-> NoOptions]

\* the three results of maybeSummarize
Verbatim(content) ==
    [status |-> "ok", text |-> content, id |-> undefined, isSummarized |-> FALSE,
     error |-> ""]

\* a summarized result that leaves the id out
SummarizedNoId(summary, id) ==
    [status |-> "ok", text |-> summary, id |-> undefined, isSummarized |-> TRUE,
     error |-> ""]

Summarized(summary, id) ==
    [status |-> "ok", text |-> summary, id |-> id, isSummarized |-> TRUE,
     error |-> ""]

\* a maybeSummarize that wraps the adapter's error in one of its own
RejectedWrapped(message) ==
    [status |-> "error", text |-> undefined, id |-> undefined, isSummarized |-> FALSE,
     error |-> "Summarization failed: " \o message]

Rejected(message) ==
    [status |-> "error", text |-> undefined, id |-> undefined, isSummarized |-> FALSE,
     error |-> message]

NoResult ==
    [status |-> "none", text |-> undefined, id |-> undefined, isSummarized |-> FALSE,
     error |-> ""]

(***************************************************************************)
(* McpServer: the tool handlers.                                           *)
(***************************************************************************)
\* the one path of a summarize_files call
FilePath == "a.ts"

\* the type label each handler passes to maybeSummarize; summarize_text passes
\* args.type, which is "log output" in the calls of this model
TypeOf(tool) ==
    CASE tool = "summarize_command"   -> "command output"
      [] tool = "summarize_files"     -> "code from " \o FilePath
      [] tool = "summarize_directory" -> "directory listing"
      [] OTHER                        -> "log output"

IdPrefix == "Summary (full content ID: "

\* result.isSummarized ? `Summary (full content ID: ${result.id}):\n${result.text}` : result.text
FormatResult(result) ==
    IF result.isSummarized
    THEN <<IdPrefix, result.id, "):\n", result.text>>
    ELSE <<result.text>>

\* handleSummarizeDirectory: `Summary (full content ID: ${result.id}):\n${result.text}`
FormatDirectory(result) == <<IdPrefix, result.id, "):\n", result.text>>

\* the text of a handler's successful response, as the pieces it is built from
ResponseText(tool, result) ==
    CASE tool = "summarize_directory" -> FormatDirectory(result)
      [] tool = "summarize_files"     -> <<FilePath, ":\n">> \o FormatResult(result) \o <<"\n">>
      [] OTHER                        -> FormatResult(result)

\* the response of a tool call whose maybeSummarize ended with `result`
ToolResponse(tool, result) ==
    IF result.status = "ok"
    THEN [status |-> "ok", text |-> ResponseText(tool, result)]
    ELSE [status |-> "error", text |-> <<"Error in " \o tool \o ": " \o result.error>>]

NoResponse == [status |-> "none", text |-> <<>>]

\* handleGetFullContent: the response for what getFullContent returned;
\* `if (!content)` takes null and the empty string alike
handleGetFullContent(found) ==
    IF found = <<>> \/ Falsy(found[1])
    THEN [status |-> "error", text |-> <<"Content not found or expired">>]
    ELSE [status |-> "ok", text |-> <<found[1]>>]

\* a JavaScript value of a request's arguments, with its typeof
Str(s) == [type |-> "string", v |-> s]
NotStr(t) == [type |-> t, v |-> ""]

\* the tool names of the dispatcher's switch
ToolNames == Tools \cup {"get_full_content"}

\* 'key' in args && typeof args.key === 'string'
HasString(args, key) == key \in DOMAIN args /\ args[key].type = "string"

isValidFormatParams(args) ==
    /\ "hint" \in DOMAIN args => args["hint"].type = "string"
    /\ "output_format" \in DOMAIN args => args["output_format"].type = "string"

isSummarizeCommandArgs(args) ==
    HasString(args, "command") /\ isValidFormatParams(args)

isSummarizeFilesArgs(args) ==
    /\ "paths" \in DOMAIN args /\ args["paths"].type = "array"
    /\ HasString(args, "cwd")
    /\ isValidFormatParams(args)

isSummarizeDirectoryArgs(args) ==
    /\ HasString(args, "path")
    /\ HasString(args, "cwd")
    /\ "recursive" \in DOMAIN args => args["recursive"].type = "boolean"
    /\ isValidFormatParams(args)

isSummarizeTextArgs(args) ==
    HasString(args, "content") /\ HasString(args, "type") /\ isValidFormatParams(args)

isGetFullContentArgs(args) == HasString(args, "id")

\* the type guard the dispatcher applies for the tool `name`
ShapeOk(name, args) ==
    CASE name = "summarize_command"   -> isSummarizeCommandArgs(args)
      [] name = "summarize_files"     -> isSummarizeFilesArgs(args)
      [] name = "summarize_directory" -> isSummarizeDirectoryArgs(args)
      [] name = "summarize_text"      -> isSummarizeTextArgs(args)
      [] name = "get_full_content"    -> isGetFullContentArgs(args)
      [] OTHER                        -> FALSE

McpError(code, message) == <<[code |-> code, message |-> message]>>

\* a dispatcher that looks the tool up before it tests the arguments
DispatchNameFirst(request) ==
    IF Falsy(request.name)
    THEN McpError("InvalidRequest", "Missing tool name")
    ELSE IF request.name \notin ToolNames
    THEN McpError("MethodNotFound", "Unknown tool: " \o request.name)
    ELSE IF request.arguments = <<>>
    THEN McpError("InvalidRequest", "Missing arguments")
    ELSE IF ~ShapeOk(request.name, request.arguments[1])
    THEN McpError("InvalidRequest", "Invalid arguments for " \o request.name)
    ELSE <<>>

\* the CallToolRequestSchema handler up to the call of a tool handler: the
\* McpError it throws, << >> when it calls the handler
Dispatch(request) ==
    IF Falsy(request.name)
    THEN McpError("InvalidRequest", "Missing tool name")
    ELSE IF request.arguments = <<>>
    THEN McpError("InvalidRequest", "Missing arguments")
    ELSE IF request.name \notin ToolNames
    THEN McpError("MethodNotFound", "Unknown tool: " \o request.name)
    ELSE IF ~ShapeOk(request.name, request.arguments[1])
    THEN McpError("InvalidRequest", "Invalid arguments for " \o request.name)
    ELSE <<>>

\* args.hint and args.output_format as the handlers pass them on
OptionsOf(args) ==
    [hint |-> IF "hint" \in DOMAIN args THEN args["hint"].v ELSE undefined,
     output_format |-> IF "output_format" \in DOMAIN args
                       THEN args["output_format"].v ELSE undefined]

\* the ids a response text shows as 'full content ID'
EmbeddedIds(text) ==
    { text[i + 1] : i \in { j \in 1..(Len(text) - 1) : text[j] = IdPrefix } }

(***************************************************************************)
(* The state machine.                                                      *)
(***************************************************************************)
\* main() before it runs
NotStarted ==
    [pc |-> "start", env |-> <<>>, error |-> "", exitCode |-> -1,
     serverStarted |-> FALSE]

\* a summarize call on the adapter that has not been made yet
IdleCall ==
    [pc |-> "idle", content |-> "", type |-> "", options |-> NoOptions,
     lifecycleAtCall |-> "n/a", apiKey |-> <<>>, requests |-> 0, response |-> <<>>,
     outcome |-> [ok |-> FALSE, value |-> ""]]

\* a tool call that has not been made yet
IdleTask ==
    [pc |-> "idle", tool |-> "summarize_text", content |-> "", options |-> NoOptions,
     lifecycleAtCall |-> "n/a", everReadyAtCall |-> FALSE,
     call |-> <<>>, requested |-> FALSE, adapterError |-> "",
     result |-> NoResult, response |-> NoResponse,
     storedAt |-> -1, tornDown |-> FALSE,
     request |-> <<>>, rejection |-> <<>>]

Init ==
    /\ provider \in Providers
    /\ adapterConfig = <<>>
    /\ lifecycle = "Uninitialized"
    /\ everReady = FALSE
    /\ initCall = <<>>
    /\ adapterCall = IdleCall
    /\ promptCall = <<>>
    /\ main = NotStarted
    /\ svc = "none"
    /\ svcError = ""
    /\ svcConfig = <<>>
    /\ svcModelConfig = <<>>
    /\ charThreshold = 0
    /\ cacheMaxAge = 0
    /\ contentCache = << >>
    /\ timerActive = FALSE
    /\ nextSweep = 0
    /\ nextUuid = 1
    /\ noSweepCache = << >>
    /\ listing = <<>>
    /\ now = 0
    /\ tasks = [t \in Tasks |-> IdleTask]
    /\ cleanupPending = 0
    /\ cleanupDone = 0

\* a constructor test that lets a cacheMaxAge of 0 pass
InvalidCacheMaxAgeNegative(x) == x # <<>> /\ x[1] < 0

\* config.cacheMaxAge !== undefined && config.cacheMaxAge <= 0
InvalidCacheMaxAge(x) == x # <<>> /\ x[1] <= 0

\* new SummarizationService(model, config)
Construct(config) ==
    /\ svc = "none"
    /\ svcConfig' = <<config>>
    /\ svcModelConfig' = <<config.model>>
    /\ charThreshold' = OrTruthy(config.charThreshold, DefaultCharThreshold)
    /\ IF InvalidCacheMaxAge(config.cacheMaxAge)
       THEN /\ svc' = "failed"
            /\ svcError' = "Cache max age must be a positive number"
            /\ UNCHANGED <<cacheMaxAge, timerVars>>
       ELSE /\ svc' = "constructed"
            /\ svcError' = ""
            /\ cacheMaxAge' = OrTruthy(config.cacheMaxAge, DefaultCacheMaxAge)
            /\ timerActive' = TRUE
            /\ nextSweep' = now + cacheMaxAge'
    /\ UNCHANGED <<adapterVars, directVars, cacheVars, cleanupVars, now, tasks>>

\* an initialize that configures the adapter once only
ConfigAfterKeepFirst(old, r) == IF r.ok /\ old = <<>> THEN r.config ELSE old

\* an initialize that discards the configuration when it fails
ConfigAfterCleared(old, r) == IF r.ok THEN r.config ELSE <<>>

\* this.config after initialize: the assignment is the last statement, after
\* every throw
ConfigAfter(old, r) == IF r.ok THEN r.config ELSE old

\* model.initialize(config), the body of every adapter's initialize
AdapterInitialize(config) ==
    LET r == InitializeResult(provider, config)
    IN  /\ adapterConfig' = ConfigAfter(adapterConfig, r)
        /\ lifecycle' = IF r.ok THEN "Ready" ELSE lifecycle
        /\ everReady' = (everReady \/ r.ok)
        /\ initCall' = <<[config |-> config, ok |-> r.ok, error |-> r.error]>>
        /\ UNCHANGED <<provider, adapterCall, callVars, configVars, cacheVars, timerVars, cleanupVars, now, tasks>>

\* SummarizationService.initialize()
Initialize ==
    /\ svc = "constructed"
    /\ AdapterInitialize(svcModelConfig[1])

\* maybeSummarize(content, type, options) of task t up to its first suspension:
\* it returns, the adapter throws, or the adapter's fetch is under way
maybeSummarize(task, content, type, options) ==
    LET called == [task EXCEPT !.lifecycleAtCall = lifecycle,
                               !.everReadyAtCall = everReady,
                               !.call = <<SummarizeArgs(content, type, options)>>]
    IN  IF BelowThreshold(content, charThreshold)
        THEN [task EXCEPT !.pc = "done",
                          !.result = Verbatim(content),
                          !.response = ToolResponse(task.tool, Verbatim(content))]
        ELSE IF ~IsInitialized(adapterConfig)
        THEN [called EXCEPT !.pc = "done",
                            !.adapterError = NotInitializedError(provider),
                            !.result = Rejected(NotInitializedError(provider)),
                            !.response = ToolResponse(task.tool,
                                Rejected(NotInitializedError(provider)))]
        ELSE [called EXCEPT !.pc = "awaiting", !.requested = TRUE]

\* a tool handler has gathered `content` and calls maybeSummarize
StartTool(t, tool, content, options) ==
    /\ svc = "constructed"
    /\ tasks[t].pc = "idle"
    /\ \A u \in Tasks : u < t => tasks[u].pc # "idle"
    /\ tasks' = [tasks EXCEPT ![t] =
          maybeSummarize([@ EXCEPT !.tool = tool, !.content = content,
                                   !.options = options],
                         content, TypeOf(tool), options)]
    /\ UNCHANGED <<adapterVars, directVars, configVars, cacheVars, timerVars, cleanupVars, now>>

\* an await that resumes only when no earlier task is still awaiting
CanResumeInOrder(ts, t) ==
    ts[t].pc = "awaiting" /\ \A u \in Tasks : u < t => ts[u].pc # "awaiting"

\* task t is suspended at `await this.model.summarize(content, type)`; its
\* continuation depends on its own promise only
CanResume(ts, t) == ts[t].pc = "awaiting"

\* the upstream answers the request of task t: the adapter's summarize settles
\* and maybeSummarize resumes after its await
Respond(t, resp) ==
    /\ CanResume(tasks, t)
    /\ LET out == SummarizeOutcome(provider, resp)
           id == uuidv4(nextUuid)
           tool == tasks[t].tool
       IN  IF out.ok
           THEN /\ contentCache' = storeContent(contentCache, id,
                                      ContentToStore(tasks[t].content, out.value), now)
                /\ nextUuid' = nextUuid + 1
                /\ tasks' = [tasks EXCEPT ![t] =
                      [@ EXCEPT !.pc = "done",
                                !.result = Summarized(out.value, id),
                                !.response = ToolResponse(tool, Summarized(out.value, id)),
                                !.storedAt = now]]
           ELSE /\ tasks' = [tasks EXCEPT ![t] =
                      [@ EXCEPT !.pc = "done",
                                !.adapterError = out.value,
                                !.result = Rejected(out.value),
                                !.response = ToolResponse(tool, Rejected(out.value))]]
                /\ UNCHANGED cacheVars
    /\ UNCHANGED <<adapterVars, directVars, configVars, timerVars, cleanupVars, now>>

\* SummarizationService.getFullContent(id): it returns
\* getFullContent(contentCache, id, now, cacheMaxAge) and leaves this cache
GetFullContent(id) ==
    /\ svc = "constructed"
    /\ contentCache' = getFullContentCache(contentCache, id, now, cacheMaxAge)
    /\ UNCHANGED <<adapterVars, directVars, configVars, nextUuid, timerVars, cleanupVars, now, tasks>>

\* the interval timer fires: cleanupCache()
Sweep ==
    /\ timerActive
    /\ now >= nextSweep
    /\ contentCache' = cleanupCache(contentCache, now, cacheMaxAge)
    /\ nextSweep' = now + cacheMaxAge
    /\ UNCHANGED <<adapterVars, directVars, configVars, nextUuid, timerActive, cleanupVars, now, tasks>>

\* SummarizationService.cleanup() up to its await: the adapter's cleanup has run
CleanupStart ==
    /\ svc = "constructed"
    /\ cleanupPending + cleanupDone < MaxCleanups
    /\ adapterConfig' = AdapterCleanup(provider, adapterConfig)
    /\ lifecycle' = "Closed"
    /\ cleanupPending' = cleanupPending + 1
    /\ UNCHANGED <<provider, everReady, directVars, configVars, cacheVars, timerVars,
                   cleanupDone, now, tasks>>

\* a cleanup() that leaves the cache alone once the timer has been cleared
CleanupFinishOnce ==
    /\ cleanupPending > 0
    /\ contentCache' = IF timerActive THEN << >> ELSE contentCache
    /\ timerActive' = FALSE
    /\ cleanupPending' = cleanupPending - 1
    /\ cleanupDone' = cleanupDone + 1
    /\ tasks' = [t \in Tasks |->
                   IF tasks[t].storedAt >= 0
                   THEN [tasks[t] EXCEPT !.tornDown = TRUE] ELSE tasks[t]]
    /\ UNCHANGED <<adapterVars, directVars, configVars, nextUuid, nextSweep, now>>

\* SummarizationService.cleanup() after its await: clear the cache and the timer
CleanupFinish ==
    /\ cleanupPending > 0
    /\ contentCache' = << >>
    /\ timerActive' = FALSE
    /\ cleanupPending' = cleanupPending - 1
    /\ cleanupDone' = cleanupDone + 1
    /\ tasks' = [t \in Tasks |->
                   IF tasks[t].storedAt >= 0
                   THEN [tasks[t] EXCEPT !.tornDown = TRUE] ELSE tasks[t]]
    /\ UNCHANGED <<adapterVars, directVars, configVars, nextUuid, nextSweep, now>>

\* SummarizationService.cleanup() when the promise of this.model.cleanup()
\* rejects: the await throws, cleanup() rejects, and the two statements after
\* the await are not reached. None of the four adapter classes has a cleanup
\* that fails; another implementation of SummarizationModel may.
CleanupRejected ==
    /\ svc = "constructed"
    /\ cleanupPending + cleanupDone < MaxCleanups
    /\ cleanupDone' = cleanupDone + 1
    /\ UNCHANGED <<adapterVars, directVars, configVars, cacheVars, timerVars,
                   cleanupPending, now, tasks>>

\* SIGINT arrives at a running server: the handler McpServer's constructor
\* registered and the one main() registered both run, and each calls
\* server.cleanup(), which calls SummarizationService.cleanup() up to its
\* await; the adapter's cleanup has run twice and two cleanup() calls are
\* suspended
Sigint ==
    /\ svc = "constructed"
    /\ cleanupPending + cleanupDone = 0
    /\ adapterConfig' = AdapterCleanup(provider, AdapterCleanup(provider, adapterConfig))
    /\ lifecycle' = "Closed"
    /\ cleanupPending' = cleanupPending + 2
    /\ UNCHANGED <<provider, everReady, directVars, configVars, cacheVars, timerVars,
                   cleanupDone, now, tasks>>

\* time passes
Tick ==
    /\ now < MaxTime
    /\ now' = now + 1
    /\ UNCHANGED <<adapterVars, directVars, configVars, cacheVars, timerVars, cleanupVars, tasks>>

\* model.initialize(config) called on the adapter directly
DirectInitialize(config) ==
    LET r == InitializeResult(provider, config)
    IN  /\ svc = "none"
        /\ adapterConfig' = ConfigAfter(adapterConfig, r)
        /\ lifecycle' = IF r.ok THEN "Ready" ELSE lifecycle
        /\ everReady' = (everReady \/ r.ok)
        /\ initCall' = <<[config |-> config, ok |-> r.ok, error |-> r.error,
                          before |-> adapterConfig]>>
        /\ UNCHANGED <<provider, adapterCall, callVars, configVars, cacheVars, timerVars,
                       cleanupVars, now, tasks>>

\* model.cleanup() called on the adapter directly
DirectCleanup ==
    /\ svc = "none"
    /\ adapterConfig' = AdapterCleanup(provider, adapterConfig)
    /\ lifecycle' = "Closed"
    /\ UNCHANGED <<provider, everReady, directVars, configVars, cacheVars, timerVars,
                   cleanupVars, now, tasks>>

\* model.summarize(content, type, options) called on the adapter directly, up
\* to its fetch: it throws not-initialized or the one request is under way
DirectSummarize(content, type, options) ==
    /\ svc = "none"
    /\ adapterCall.pc = "idle"
    /\ adapterCall' =
          LET called == [adapterCall EXCEPT !.content = content, !.type = type,
                                            !.options = options,
                                            !.lifecycleAtCall = lifecycle,
                                            !.apiKey = IF adapterConfig = <<>> THEN <<>>
                                                       ELSE <<adapterConfig[1].apiKey>>]
          IN  IF ~IsInitialized(adapterConfig)
              THEN [called EXCEPT !.pc = "done",
                                  !.outcome = [ok |-> FALSE,
                                               value |-> NotInitializedError(provider)]]
              ELSE [called EXCEPT !.pc = "awaiting", !.requests = @ + 1]
    /\ UNCHANGED <<adapterVars, initCall, callVars, configVars, cacheVars, timerVars, cleanupVars,
                   now, tasks>>

\* a summarize that sends its request again when the request failed
AfterFetchRetry(call, out) ==
    IF out.ok
    THEN [call EXCEPT !.pc = "done", !.outcome = out]
    ELSE [call EXCEPT !.requests = @ + 1]

\* summarize after its fetch settled with `out`: it returns or throws, once
AfterFetch(call, out) == [call EXCEPT !.pc = "done", !.outcome = out]

\* the upstream answers the request of the direct summarize call
DirectRespond(resp) ==
    /\ adapterCall.pc = "awaiting"
    /\ adapterCall' = AfterFetch([adapterCall EXCEPT !.response = <<resp>>],
                                 SummarizeOutcome(provider, resp))
    /\ UNCHANGED <<adapterVars, initCall, callVars, configVars, cacheVars, timerVars, cleanupVars,
                   now, tasks>>

\* the caller has taken the result of the direct call and may call again
DirectReturn ==
    /\ adapterCall.pc = "done"
    /\ adapterCall' = IdleCall
    /\ UNCHANGED <<adapterVars, initCall, callVars, configVars, cacheVars, timerVars, cleanupVars,
                   now, tasks>>

Next ==
    \/ \E config \in SummarizationConfigs : Construct(config)
    \/ Initialize
    \/ \E t \in Tasks, call \in ToolCalls, content \in Contents :
          StartTool(t, call.tool, content, call.options)
    \/ \E t \in Tasks, resp \in Responses : Respond(t, resp)
    \/ \E id \in QueryIds : GetFullContent(id)
    \/ Sweep
    \/ CleanupStart
    \/ CleanupFinish
    \/ Tick

Spec == Init /\ [][Next]_vars

\* the server with a negative charThreshold, where empty content is summarized
NextNegativeThreshold ==
    \/ \E config \in NegativeThresholdConfigs : Construct(config)
    \/ Initialize
    \/ \E t \in Tasks, call \in ToolCalls : StartTool(t, call.tool, "", call.options)
    \/ \E t \in Tasks, resp \in Responses : Respond(t, resp)
    \/ \E id \in QueryIds : GetFullContent(id)
    \/ Sweep
    \/ CleanupStart
    \/ CleanupFinish
    \/ Tick

SpecNegativeThreshold == Init /\ [][NextNegativeThreshold]_vars

\* constructPrompt(format, content, type, options)
ConstructPrompt(args) ==
    /\ promptCall' = <<args, constructPrompt(args.format, args.content, args.type,
                                              args.options)>>
    /\ UNCHANGED <<adapterVars, initCall, adapterCall, listing, main, noSweepCache, configVars, cacheVars,
                   timerVars, cleanupVars, now, tasks>>

\* constructPrompt on its own
NextPrompt == \E args \in PromptArguments : ConstructPrompt(args)

SpecPrompt == Init /\ [][NextPrompt]_vars

\* an adapter used on its own, as its unit tests use it
NextAdapter ==
    \/ \E config \in InitConfigs : DirectInitialize(config)
    \/ DirectCleanup
    \/ \E content \in Contents, options \in {NoOptions, SomeOptions} :
          DirectSummarize(content, "text", options)
    \/ \E resp \in AdapterResponses : DirectRespond(resp)
    \/ DirectReturn

SpecAdapter == Init /\ [][NextAdapter]_vars

\* the configurations of an adapter that is initialized more than once: two
\* valid ones that differ in every field, and two that initialize refuses
ReinitConfigs ==
    { [apiKey |-> "key", model |-> "m", maxTokens |-> <<Num(1)>>],
      [apiKey |-> "key2", model |-> undefined, maxTokens |-> <<>>],
      [apiKey |-> "", model |-> "m", maxTokens |-> <<Num(1)>>],
      [apiKey |-> "key2", model |-> " ", maxTokens |-> <<>>] }

\* an adapter used on its own and initialized again and again
NextReinit ==
    \/ \E config \in ReinitConfigs : DirectInitialize(config)
    \/ DirectCleanup
    \/ \E content \in Contents : DirectSummarize(content, "text", NoOptions)
    \/ \E resp \in Responses : DirectRespond(resp)
    \/ DirectReturn

SpecReinit == Init /\ [][NextReinit]_vars

\* the configurations of the server that is interrupted
SigintConfigs ==
    [model : ModelConfigs, charThreshold : {<<1>>}, cacheMaxAge : {<<1>>}]

\* the server interrupted by SIGINT while tool calls are under way
NextSigint ==
    \/ \E config \in SigintConfigs : Construct(config)
    \/ Initialize
    \/ \E t \in Tasks, content \in Contents :
          StartTool(t, "summarize_text", content, NoOptions)
    \/ \E t \in Tasks, resp \in Responses : Respond(t, resp)
    \/ \E id \in QueryIds : GetFullContent(id)
    \/ Sweep
    \/ Sigint
    \/ CleanupFinish
    \/ Tick

SpecSigint == Init /\ [][NextSigint]_vars

\* the server behind an adapter whose cleanup may fail
NextFailingCleanup ==
    \/ \E config \in SummarizationConfigs : Construct(config)
    \/ Initialize
    \/ \E t \in Tasks, call \in ToolCalls, content \in Contents :
          StartTool(t, call.tool, content, call.options)
    \/ \E t \in Tasks, resp \in Responses : Respond(t, resp)
    \/ Sweep
    \/ CleanupStart
    \/ CleanupFinish
    \/ CleanupRejected
    \/ Tick

SpecFailingCleanup == Init /\ [][NextFailingCleanup]_vars

\* the server while the upstream call of task 1 never completes: every other
\* task's upstream call is answered
HungTask == 1

NextHang ==
    \/ \E config \in SummarizationConfigs : Construct(config)
    \/ Initialize
    \/ \E t \in Tasks, call \in ToolCalls, content \in Contents :
          StartTool(t, call.tool, content, call.options)
    \/ \E t \in Tasks \ {HungTask}, resp \in Responses : Respond(t, resp)
    \/ \E id \in QueryIds : GetFullContent(id)

SpecHang ==
    /\ Init
    /\ [][NextHang]_vars
    /\ \A t \in Tasks \ {HungTask} : WF_vars(\E resp \in Responses : Respond(t, resp))

(***************************************************************************)
(* One summarize_files call with a path for every task of Tasks: the tasks *)
(* are the callbacks Promise.all runs, one per path.                       *)
(***************************************************************************)
ReadError == "ENOENT: no such file or directory"

\* the callback of path t when fs.readFile rejects: maybeSummarize is not called
ReadFails(t) ==
    /\ svc = "constructed"
    /\ tasks[t].pc = "idle"
    /\ \A u \in Tasks : u < t => tasks[u].pc # "idle"
    /\ tasks' = [tasks EXCEPT ![t] =
          [@ EXCEPT !.pc = "done", !.tool = "summarize_files",
                    !.result = Rejected(ReadError),
                    !.response = ToolResponse("summarize_files", Rejected(ReadError))]]
    /\ UNCHANGED <<adapterVars, directVars, configVars, cacheVars, timerVars, cleanupVars, now>>

\* args.paths of the call: the path of callback t
Paths == [t \in Tasks |-> "file" \o ToString(t) \o ".ts"]

\* `${result.path}:\n${result.isSummarized ? ... : result.text}\n`
FileSection(filePath, result) == <<filePath, ":\n">> \o FormatResult(result) \o <<"\n">>

\* a join that pairs each path with the result of the path opposite to it
RECURSIVE JoinResultsSwapped(_, _)
JoinResultsSwapped(ts, n) ==
    IF n = 0 THEN <<>>
    ELSE IF n = 1 THEN FileSection(Paths[1], ts[MaxTasks].result)
    ELSE JoinResultsSwapped(ts, n - 1) \o <<"\n">>
            \o FileSection(Paths[n], ts[MaxTasks + 1 - n].result)

\* results.map(...).join('\n') over the first n paths, as the pieces of the
\* text: Promise.all resolves with the callbacks' values in the order of
\* args.paths, each value {path: filePath, ...result} of its own callback
RECURSIVE JoinResults(_, _)
JoinResults(ts, n) ==
    IF n = 0 THEN <<>>
    ELSE IF n = 1 THEN FileSection(Paths[1], ts[1].result)
    ELSE JoinResults(ts, n - 1) \o <<"\n">> \o FileSection(Paths[n], ts[n].result)

\* what the call answers: Promise.all rejects as soon as one callback has
\* thrown, and resolves when every callback has returned
FilesResponse(ts) ==
    IF \E t \in Tasks : ts[t].pc = "done" /\ ts[t].result.status = "error"
    THEN [status |-> "error",
          text |-> ts[CHOOSE t \in Tasks :
                         ts[t].pc = "done" /\ ts[t].result.status = "error"].response.text]
    ELSE IF \A t \in Tasks : ts[t].pc = "done"
    THEN [status |-> "ok", text |-> JoinResults(ts, MaxTasks)]
    ELSE NoResponse

NextFiles ==
    \/ \E config \in SummarizationConfigs : Construct(config)
    \/ Initialize
    \/ \E t \in Tasks, content \in Contents, options \in {NoOptions, SomeOptions} :
          StartTool(t, "summarize_files", content, options)
    \/ \E t \in Tasks : ReadFails(t)
    \/ \E t \in Tasks, resp \in Responses : Respond(t, resp)

SpecFiles == Init /\ [][NextFiles]_vars

(***************************************************************************)
(* handleSummarizeDirectory up to its call of maybeSummarize: the listing   *)
(* listDir builds. A directory is a record of its subdirectories, in the    *)
(* sorted order (directories come first), and the number of its files; a    *)
(* line of the listing is a record of its kind and of the directory, named  *)
(* by its path of indices from the root, whose loop wrote it.               *)
(***************************************************************************)
MAX_DEPTH == 5
MAX_FILES == 1000
MAX_FILES_PER_DIR == 100

MaxChain == 6
MaxWide == 11

\* how many files a directory of the model holds
FileCounts == {0, 1, 100, 101, 103}

\* a chain of d nested directories below a directory, f files in each
RECURSIVE Chain(_, _)
Chain(d, f) ==
    [ignored |-> FALSE, files |-> f,
     dirs |-> IF d = 0 THEN <<>> ELSE <<Chain(d - 1, f)>>]

\* the directories listed: chains, directories with k subdirectories (the
\* first one named like an entry of directioriesIgnore or not), where f is the
\* number of files of a subdirectory and g that of the root
Directories ==
    { Chain(d, f) : d \in 0..MaxChain, f \in FileCounts }
    \cup { [ignored |-> FALSE, files |-> g,
            dirs |-> [i \in 1..k |-> [ignored |-> (ign /\ i = 1), files |-> f,
                                      dirs |-> <<>>]]] :
             k \in {1, 2, MaxWide}, f \in FileCounts, g \in FileCounts,
             ign \in BOOLEAN }

\* the iterations of listDir's for loop over the files of d, which sortedItems
\* puts after the directories: before the k-th file, fileCount is k - 1 or has
\* stopped at MAX_FILES_PER_DIR, and totalFiles has grown by as much
listDirFiles(d, path, st) ==
    LET fileCount(k) == IF k - 1 < MAX_FILES_PER_DIR THEN k - 1 ELSE MAX_FILES_PER_DIR
        \* the iterations that find totalFiles >= MAX_FILES: the first one breaks
        full == { k \in 1..d.files : st.totalFiles + fileCount(k) >= MAX_FILES }
        ran == IF full = {} THEN d.files
               ELSE (CHOOSE k \in full : \A m \in full : k <= m) - 1
        line(k) ==
            IF fileCount(k) >= MAX_FILES_PER_DIR
            THEN \* fileCount === MAX_FILES_PER_DIR holds in each of these iterations
                 [kind |-> "more", dir |-> path,
                  n |-> Len(d.dirs) + d.files - fileCount(k)]
            ELSE [kind |-> "file", dir |-> path, n |-> Len(d.dirs) + k]
    IN  [output |-> st.output \o [k \in 1..ran |-> line(k)],
         totalFiles |-> st.totalFiles + fileCount(ran + 1),
         truncated |-> (st.truncated \/ full # {})]

RECURSIVE listDir(_, _, _, _, _)
RECURSIVE listDirItems(_, _, _, _, _, _)

\* the for loop of listDir over sortedItems from item i on; st holds output
\* and the handler's totalFiles and truncated
listDirItems(d, path, recursive, depth, i, st) ==
    IF i > Len(d.dirs) + d.files THEN st
    ELSE IF st.totalFiles >= MAX_FILES THEN [st EXCEPT !.truncated = TRUE]
    ELSE IF i <= Len(d.dirs)
    THEN LET named == [st EXCEPT !.output = Append(@, [kind |-> "dir", dir |-> path, n |-> i])]
         IN  listDirItems(d, path, recursive, depth, i + 1,
                IF d.dirs[i].ignored
                THEN [named EXCEPT !.output =
                        Append(@, [kind |-> "skipped", dir |-> path, n |-> i])]
                ELSE IF recursive
                THEN listDir(d.dirs[i], path \o <<i>>, recursive, depth + 1, named)
                ELSE named)
    ELSE listDirFiles(d, path, st)

\* listDir(dir, recursive, depth): st with the lines of dir added to output
listDir(d, path, recursive, depth, st) ==
    IF depth >= MAX_DEPTH
    THEN [st EXCEPT !.output = Append(@, [kind |-> "depth limit", dir |-> path, n |-> MAX_DEPTH])]
    ELSE listDirItems(d, path, recursive, depth, 1, st)

\* handleSummarizeDirectory(args) up to its call of maybeSummarize: listDir
\* from the resolved path, then the truncation notice
ListDirectory(d, recursive) ==
    LET st == listDir(d, <<>>, recursive, 0,
                      [output |-> <<>>, totalFiles |-> 0, truncated |-> FALSE])
    IN  /\ listing = <<>>
        /\ listing' = <<[directory |-> d, recursive |-> recursive,
                         totalFiles |-> st.totalFiles, truncated |-> st.truncated,
                         listing |-> IF st.truncated
                                     THEN Append(st.output, [kind |-> "truncated", dir |-> <<>>,
                                                             n |-> MAX_FILES])
                                     ELSE st.output]>>
        /\ UNCHANGED <<adapterVars, initCall, adapterCall, promptCall, main, noSweepCache,
                       configVars, cacheVars, timerVars, cleanupVars, now, tasks>>

\* one summarize_directory call: totalFiles and truncated are locals of the
\* handler, so a listing depends on nothing an earlier call has left
NextDirectory == \E d \in Directories, recursive \in BOOLEAN : ListDirectory(d, recursive)

SpecDirectory == Init /\ [][NextDirectory]_vars

(***************************************************************************)
(* Two caches side by side: the service's, swept at any time the timer may *)
(* fire, late or never, and a second one that is never swept. Both receive *)
(* the same stores and lookups at the same times.                          *)
(***************************************************************************)
\* storeContent(content) on both caches
StoreBoth(content) ==
    LET id == uuidv4(nextUuid)
    IN  /\ svc = "constructed"
        /\ nextUuid <= MaxTasks
        /\ contentCache' = storeContent(contentCache, id, content, now)
        /\ noSweepCache' = storeContent(noSweepCache, id, content, now)
        /\ nextUuid' = nextUuid + 1
        /\ UNCHANGED <<adapterVars, initCall, adapterCall, listing, promptCall, main, configVars,
                       timerVars, cleanupVars, now, tasks>>

\* getFullContent(id) on both caches
LookupBoth(id) ==
    /\ svc = "constructed"
    /\ contentCache' = getFullContentCache(contentCache, id, now, cacheMaxAge)
    /\ noSweepCache' = getFullContentCache(noSweepCache, id, now, cacheMaxAge)
    /\ UNCHANGED <<adapterVars, initCall, adapterCall, listing, promptCall, main, configVars,
                   nextUuid, timerVars, cleanupVars, now, tasks>>

\* cleanupCache() on the service's cache, whenever the timer callback gets to run
SweepAnyTime ==
    /\ timerActive
    /\ contentCache' = cleanupCache(contentCache, now, cacheMaxAge)
    /\ UNCHANGED <<adapterVars, directVars, configVars, nextUuid, timerVars,
                   cleanupVars, now, tasks>>

NextTwoCaches ==
    \/ \E config \in SummarizationConfigs : Construct(config)
    \/ \E content \in Contents : StoreBoth(content)
    \/ \E id \in QueryIds : LookupBoth(id)
    \/ SweepAnyTime
    \/ Tick

SpecTwoCaches == Init /\ [][NextTwoCaches]_vars

(***************************************************************************)
(* The tool-call dispatcher.                                               *)
(***************************************************************************)
\* the arguments objects of the requests
ArgumentObjects ==
    { [other |-> Str("x")],
      [content |-> Str(Repeat("A", MaxLen)), type |-> Str("log output")],
      [content |-> Str(Repeat("A", MaxLen))],
      [content |-> NotStr("number"), type |-> Str("log output")],
      [content |-> Str(Repeat("A", MaxLen)), type |-> Str("log output"),
       hint |-> NotStr("number")],
      [command |-> Str("ls")],
      [command |-> NotStr("number")],
      [paths |-> NotStr("array"), cwd |-> Str("/")],
      [paths |-> Str(FilePath), cwd |-> Str("/")],
      [path |-> Str("/"), cwd |-> Str("/")],
      [path |-> Str("/"), cwd |-> Str("/"), recursive |-> Str("yes")],
      [id |-> Str(uuidv4(1))],
      [id |-> NotStr("number")] }

\* request.params of a tools/call request; arguments << >> is a missing one
Requests ==
    [name : ToolNames \cup {undefined, "", "no_such_tool"},
     arguments : {<<>>} \cup { <<a>> : a \in ArgumentObjects }]

\* the CallToolRequestSchema handler for task t, up to its first suspension.
\* `content` is what the tool handler obtains to summarize: the command's
\* output, the file's content, the listing, or args.content
CallTool(t, request, content) ==
    LET error == Dispatch(request)
        args == request.arguments[1]
        id == args["id"].v
    IN
    /\ svc = "constructed"
    /\ tasks[t].pc = "idle"
    /\ \A u \in Tasks : u < t => tasks[u].pc # "idle"
    /\ UNCHANGED <<adapterVars, directVars, configVars, nextUuid, timerVars,
                   cleanupVars, now>>
    /\ IF error # <<>>
       THEN /\ tasks' = [tasks EXCEPT ![t] =
                  [@ EXCEPT !.pc = "done", !.request = <<request>>,
                            !.rejection = error,
                            !.response = [status |-> "error",
                                          text |-> <<error[1].message>>]]]
            /\ UNCHANGED contentCache
       ELSE IF request.name = "get_full_content"
       THEN /\ tasks' = [tasks EXCEPT ![t] =
                  [@ EXCEPT !.pc = "done", !.request = <<request>>,
                            !.response = handleGetFullContent(
                               getFullContent(contentCache, id, now, cacheMaxAge))]]
            /\ contentCache' = getFullContentCache(contentCache, id, now, cacheMaxAge)
       ELSE /\ request.name = "summarize_text" => content = args["content"].v
            /\ tasks' = [tasks EXCEPT ![t] =
                  maybeSummarize([@ EXCEPT !.tool = request.name, !.content = content,
                                           !.options = OptionsOf(args),
                                           !.request = <<request>>],
                                 content, TypeOf(request.name), OptionsOf(args))]
            /\ UNCHANGED contentCache

NextDispatcher ==
    \/ \E config \in SummarizationConfigs : Construct(config)
    \/ Initialize
    \/ \E t \in Tasks, request \in Requests, content \in Contents :
          CallTool(t, request, content)
    \/ \E t \in Tasks, resp \in Responses : Respond(t, resp)

SpecDispatcher == Init /\ [][NextDispatcher]_vars

(***************************************************************************)
(* Startup: main() of index.ts and initializeModel.                        *)
(***************************************************************************)
\* values of a numeric environment variable
EnvNumbers == {undefined, "", "abc", "0", "-5", "1"}

\* process.env as main() reads it
MainEnvs ==
    [PROVIDER : Providers \cup {undefined, "anthropic", "COHERE"},
     API_KEY : {undefined, "key"},
     MODEL_ID : {undefined, "m"},
     PROVIDER_BASE_URL : {undefined, "https://proxy.example/v1"},
     MAX_TOKENS : EnvNumbers,
     SUMMARIZATION_CHAR_THRESHOLD : {undefined, "0", "1"},
     SUMMARIZATION_CACHE_MAX_AGE : EnvNumbers]

\* parseInt(s): << >> stands for NaN
parseInt(s) ==
    CASE s = "0" -> <<0>>
      [] s = "-5" -> <<-5>>
      [] s = "1" -> <<1>>
      [] OTHER -> << >>

\* let x = d; if (process.env.X) { x = parseInt(process.env.X) || d; }
EnvNumber(s, d) == IF Falsy(s) THEN d ELSE OrTruthy(parseInt(s), d)

\* the config object main() builds
MainConfig(env) ==
    [model |-> [apiKey |-> env.API_KEY, model |-> env.MODEL_ID,
                maxTokens |-> <<Num(EnvNumber(env.MAX_TOKENS, DefaultMaxTokens))>>,
                baseUrl |-> null],
     charThreshold |-> <<EnvNumber(env.SUMMARIZATION_CHAR_THRESHOLD,
                                   DefaultCharThreshold)>>,
     cacheMaxAge |-> <<EnvNumber(env.SUMMARIZATION_CACHE_MAX_AGE,
                                 DefaultCacheMaxAge)>>]

\* a switch whose default case falls back on an adapter class
AdapterClassOrDefault(p) == IF p \in Providers THEN p ELSE "OPENAI-COMPATIBLE"

\* the switch of initializeModel: the adapter class instantiated for the
\* provider, "none" where the default case throws
AdapterClass(p) == IF p \in Providers THEN p ELSE "none"

\* main() ended by a throw before its try block: the promise main() returned
\* rejects and console.error logs it
MainRejected(env, message) ==
    [pc |-> "rejected", env |-> <<env>>, error |-> message, exitCode |-> -1,
     serverStarted |-> FALSE]

\* main() ended in its catch block: the error is logged and process.exit(1)
MainExited(env, message) ==
    [pc |-> "exited", env |-> <<env>>, error |-> message, exitCode |-> 1,
     serverStarted |-> FALSE]

\* the state before main() runs: no adapter has been instantiated
InitMain ==
    /\ provider = "none"
    /\ adapterConfig = <<>>
    /\ lifecycle = "Uninitialized"
    /\ everReady = FALSE
    /\ initCall = <<>>
    /\ adapterCall = IdleCall
    /\ promptCall = <<>>
    /\ main = NotStarted
    /\ svc = "none"
    /\ svcError = ""
    /\ svcConfig = <<>>
    /\ svcModelConfig = <<>>
    /\ charThreshold = 0
    /\ cacheMaxAge = 0
    /\ contentCache = << >>
    /\ timerActive = FALSE
    /\ nextSweep = 0
    /\ nextUuid = 1
    /\ noSweepCache = << >>
    /\ listing = <<>>
    /\ now = 0
    /\ tasks = [t \in Tasks |-> IdleTask]
    /\ cleanupPending = 0
    /\ cleanupDone = 0

\* main() up to its first suspension, at await summarizationService.initialize(),
\* or to its end by a throw
MainStart(env) ==
    LET config == MainConfig(env)
        class == AdapterClass(env.PROVIDER)
        r == InitializeResult(class, config.model)
    IN
    /\ main.pc = "start"
    /\ UNCHANGED <<adapterCall, listing, promptCall, noSweepCache, cacheVars, cleanupVars, now, tasks>>
    /\ IF Falsy(env.PROVIDER)
       THEN /\ main' = MainRejected(env, "PROVIDER environment variable is required")
            /\ UNCHANGED <<adapterVars, initCall, configVars, timerVars>>
       ELSE IF Falsy(env.API_KEY)
       THEN /\ main' = MainRejected(env, "API_KEY environment variable is required")
            /\ UNCHANGED <<adapterVars, initCall, configVars, timerVars>>
       ELSE IF class = "none"
       THEN \* initializeModel throws in the default case of its switch
            /\ main' = MainExited(env, "Unsupported provider: " \o env.PROVIDER)
            /\ UNCHANGED <<adapterVars, initCall, configVars, timerVars>>
       ELSE \* new adapter, then model.initialize(config), not awaited
            /\ provider' = class
            /\ adapterConfig' = r.config
            /\ lifecycle' = IF r.ok THEN "Ready" ELSE "Uninitialized"
            /\ everReady' = r.ok
            /\ initCall' = <<[config |-> config.model, ok |-> r.ok, error |-> r.error]>>
            \* new SummarizationService(model, config)
            /\ svcConfig' = <<config>>
            /\ svcModelConfig' = <<config.model>>
            /\ charThreshold' = OrTruthy(config.charThreshold, DefaultCharThreshold)
            /\ IF InvalidCacheMaxAge(config.cacheMaxAge)
               THEN /\ svc' = "failed"
                    /\ svcError' = "Cache max age must be a positive number"
                    /\ main' = MainExited(env, svcError')
                    /\ UNCHANGED <<cacheMaxAge, timerVars>>
               ELSE /\ svc' = "constructed"
                    /\ svcError' = ""
                    /\ cacheMaxAge' = OrTruthy(config.cacheMaxAge, DefaultCacheMaxAge)
                    /\ timerActive' = TRUE
                    /\ nextSweep' = now + cacheMaxAge'
                    /\ main' = [NotStarted EXCEPT !.pc = "initializing",
                                                  !.env = <<env>>]

\* a main() that starts the server whatever became of initialize
MainResumeUnchecked ==
    LET r == InitializeResult(provider, svcModelConfig[1])
    IN  /\ main.pc = "initializing"
        /\ adapterConfig' = IF r.ok THEN r.config ELSE adapterConfig
        /\ lifecycle' = IF r.ok THEN "Ready" ELSE lifecycle
        /\ everReady' = (everReady \/ r.ok)
        /\ initCall' = <<[config |-> svcModelConfig[1], ok |-> r.ok, error |-> r.error]>>
        /\ main' = [main EXCEPT !.pc = "running", !.serverStarted = TRUE]
        /\ UNCHANGED <<provider, adapterCall, listing, promptCall, noSweepCache, configVars, cacheVars,
                       timerVars, cleanupVars, now, tasks>>

\* main() from the settlement of summarizationService.initialize() on: the
\* server starts, or the catch block logs the error and exits
MainResume ==
    LET r == InitializeResult(provider, svcModelConfig[1])
    IN  /\ main.pc = "initializing"
        /\ adapterConfig' = IF r.ok THEN r.config ELSE adapterConfig
        /\ lifecycle' = IF r.ok THEN "Ready" ELSE lifecycle
        /\ everReady' = (everReady \/ r.ok)
        /\ initCall' = <<[config |-> svcModelConfig[1], ok |-> r.ok, error |-> r.error]>>
        /\ main' = IF r.ok
                   THEN [main EXCEPT !.pc = "running", !.serverStarted = TRUE]
                   ELSE MainExited(main.env[1], r.error)
        /\ UNCHANGED <<provider, adapterCall, listing, promptCall, noSweepCache, configVars, cacheVars,
                       timerVars, cleanupVars, now, tasks>>

NextMain ==
    \/ \E env \in MainEnvs : MainStart(env)
    \/ MainResume

SpecMain == InitMain /\ [][NextMain]_vars

(***************************************************************************)
(* The claims.                                                             *)
(***************************************************************************)
\* task t has just made its maybeSummarize call in this step
Called(t) == tasks[t].pc = "idle" /\ tasks'[t].pc # "idle"

\* task t's maybeSummarize settles in this step
Settled(t) == tasks[t].pc # "done" /\ tasks'[t].pc = "done"

\* task t has a summary and the id of its cached original
HasSummary(t) ==
    /\ tasks[t].pc = "done"
    /\ tasks[t].result.status = "ok"
    /\ tasks[t].result.isSummarized

\* what a getFullContent(id) call made in the current state returns
Lookup(id) == getFullContent(contentCache, id, now, cacheMaxAge)

\* C1: a maybeSummarize call whose content is no longer than charThreshold
\* returns {text: content, isSummarized: false} at once, without calling the
\* adapter's summarize and without adding anything to the cache.
C1_ShortContentVerbatim ==
    [][\A t \in Tasks :
          (Called(t) /\ Len(tasks'[t].content) <= charThreshold) =>
              /\ tasks'[t].pc = "done"
              /\ tasks'[t].result =
                    [status |-> "ok", text |-> tasks'[t].content, id |-> undefined,
                     isSummarized |-> FALSE, error |-> ""]
              /\ tasks'[t].call = <<>>
              /\ ~tasks'[t].requested
              /\ contentCache' = contentCache
              /\ nextUuid' = nextUuid]_vars

\* C1 witness: a call with content of exactly charThreshold characters has
\* returned it verbatim.
C1_Witness ==
    \E t \in Tasks :
        /\ tasks[t].pc = "done"
        /\ Len(tasks[t].content) = charThreshold
        /\ tasks[t].result.text = tasks[t].content
        /\ ~tasks[t].result.isSummarized

\* C2: after a successful maybeSummarize of content longer than charThreshold,
\* getFullContent(result.id), before expiry and before teardown, returns the
\* original content.
C2_CacheRoundTrip ==
    \A t \in Tasks :
        (/\ HasSummary(t)
         /\ Len(tasks[t].content) > charThreshold
         /\ ~tasks[t].tornDown
         /\ now - tasks[t].storedAt <= cacheMaxAge)
        => Lookup(tasks[t].result.id) = <<tasks[t].content>>

\* C2 witness: some time after the call, the id still resolves to the
\* original, which differs from the summary.
C2_Witness ==
    \E t \in Tasks :
        /\ HasSummary(t)
        /\ now > tasks[t].storedAt
        /\ Lookup(tasks[t].result.id) = <<tasks[t].content>>
        /\ tasks[t].result.text # tasks[t].content

\* C3: when the adapter's summarize fails, maybeSummarize fails with the same
\* error and the cache is left as it was.
C3_NoLeakOnFailure ==
    [][\A t \in Tasks :
          (Settled(t) /\ tasks'[t].adapterError # "") =>
              /\ tasks'[t].result.status = "error"
              /\ tasks'[t].result.error = tasks'[t].adapterError
              /\ contentCache' = contentCache
              /\ nextUuid' = nextUuid]_vars

\* C3 witness: a call whose upstream request failed has ended with the
\* adapter's error.
C3_Witness ==
    \E t \in Tasks :
        /\ tasks[t].pc = "done"
        /\ tasks[t].requested
        /\ tasks[t].adapterError # ""
        /\ tasks[t].result.error = tasks[t].adapterError

\* C4 as stated: with cache max age T, an entry stored at t0 (and not torn
\* down since) is returned at every time in [t0, t0+T) and absent at every time
\* >= t0+T, t0+T included.
C4_ExpiryAsStated ==
    \A t \in Tasks :
        (HasSummary(t) /\ ~tasks[t].tornDown) =>
            /\ now < tasks[t].storedAt + cacheMaxAge
                  => Lookup(tasks[t].result.id) = <<tasks[t].content>>
            /\ now >= tasks[t].storedAt + cacheMaxAge
                  => Lookup(tasks[t].result.id) = <<>>

\* C4 amended: with cache max age T, an entry stored at t0 and not torn down
\* since is returned at every time in [t0, t0+T], t0+T included, and absent at
\* every time > t0+T.
C4_Expiry ==
    \A t \in Tasks :
        (HasSummary(t) /\ ~tasks[t].tornDown) =>
            /\ now <= tasks[t].storedAt + cacheMaxAge
                  => Lookup(tasks[t].result.id) = <<tasks[t].content>>
            /\ now > tasks[t].storedAt + cacheMaxAge
                  => Lookup(tasks[t].result.id) = <<>>

\* C4 witness: at exactly t0+T the entry is still returned.
C4_Witness ==
    \E t \in Tasks :
        /\ HasSummary(t)
        /\ ~tasks[t].tornDown
        /\ now = tasks[t].storedAt + cacheMaxAge
        /\ Lookup(tasks[t].result.id) = <<tasks[t].content>>

\* C5: maybeSummarize calls the adapter's summarize with the content, the type
\* and the options (hint, output_format) it received.
C5_OptionsReachAdapter ==
    \A t \in Tasks :
        tasks[t].call # <<>> =>
            tasks[t].call[1] = [content |-> tasks[t].content,
                                type |-> TypeOf(tasks[t].tool),
                                options |-> tasks[t].options]

\* C6: a result of maybeSummarize carries an id exactly when isSummarized is
\* true, and the id is the key under which this call stored its content.
C6_IdIffSummarized ==
    [][\A t \in Tasks :
          (Settled(t) /\ tasks'[t].result.status = "ok") =>
              /\ tasks'[t].result.id # undefined <=> tasks'[t].result.isSummarized
              /\ tasks'[t].result.isSummarized =>
                    /\ tasks'[t].result.id \notin DOMAIN contentCache
                    /\ tasks'[t].result.id \in DOMAIN contentCache'
                    /\ contentCache'[tasks'[t].result.id].content = tasks'[t].content]_vars

\* C6 witness: one call has returned a summary with the id of its cached
\* content, another its content without an id.
C6_Witness ==
    /\ \E t \in Tasks :
          /\ HasSummary(t)
          /\ tasks[t].result.id \in DOMAIN contentCache
          /\ contentCache[tasks[t].result.id].content = tasks[t].content
    /\ \E t \in Tasks :
          /\ tasks[t].pc = "done"
          /\ tasks[t].result.status = "ok"
          /\ ~tasks[t].result.isSummarized
          /\ tasks[t].result.id = undefined

\* C7: once the orchestrator's cleanup has completed, getFullContent reports
\* absent for every id.
C7_AbsentAfterCleanup ==
    (cleanupDone > 0 /\ cleanupPending = 0) =>
        \A id \in QueryIds : Lookup(id) = <<>>

\* C8: every 'full content ID' in a successful summarize_* response is the id
\* the cache issued for that call's content, and resolves to it until expiry
\* or teardown.
C8_EmbeddedIdIssued ==
    \A t \in Tasks :
        (tasks[t].pc = "done" /\ tasks[t].response.status = "ok") =>
            \A id \in EmbeddedIds(tasks[t].response.text) :
                /\ tasks[t].storedAt >= 0
                /\ id = tasks[t].result.id
                /\ id # undefined
                /\ (~tasks[t].tornDown /\ now - tasks[t].storedAt <= cacheMaxAge)
                      => Lookup(id) = <<tasks[t].content>>

\* C9: after the adapter's cleanup, every summarize call fails with the
\* not-initialized error (and sends nothing) until initialize succeeds again.
C9_ClosedAdapterRejects ==
    \A t \in Tasks :
        (tasks[t].call # <<>> /\ tasks[t].lifecycleAtCall = "Closed") =>
            /\ tasks[t].pc = "done"
            /\ ~tasks[t].requested
            /\ tasks[t].result.status = "error"
            /\ tasks[t].result.error = NotInitializedError(provider)

\* C10: an adapter that was never successfully initialized rejects summarize
\* with its not-initialized error and sends no upstream request.
C10_UninitializedRejects ==
    \A t \in Tasks :
        (tasks[t].call # <<>> /\ ~tasks[t].everReadyAtCall) =>
            /\ tasks[t].pc = "done"
            /\ ~tasks[t].requested
            /\ tasks[t].adapterError = NotInitializedError(provider)
            /\ tasks[t].result.status = "error"

\* C10 witness: summarize was called on an adapter that no initialize had made
\* ready, and it ended with the not-initialized error without a request.
C10_Witness ==
    \E t \in Tasks :
        /\ tasks[t].call # <<>>
        /\ ~tasks[t].everReadyAtCall
        /\ ~tasks[t].requested
        /\ tasks[t].adapterError = NotInitializedError(provider)

\* the configuration errors of initialize
ConfigErrors ==
    { ApiKeyRequired(p) : p \in Providers } \cup
    {"Invalid model name", "Invalid max tokens value"}

\* a configuration whose apiKey is missing or empty, whose model name is blank,
\* or whose maxTokens is not a positive integer
InvalidConfig(c) ==
    \/ c.apiKey \in {undefined, ""}
    \/ c.model \in {" ", "  "}
    \/ c.maxTokens # <<>> /\ (c.maxTokens[1].half \/ c.maxTokens[1].whole <= 0)

\* C11: for every provider, initialize with an invalid configuration (apiKey
\* missing or empty, model name blank, maxTokens zero, negative or non-integer)
\* fails with a configuration error and leaves the adapter as it was, not Ready.
C11_InvalidConfigRejected ==
    [][(initCall' # initCall /\ InvalidConfig(initCall'[1].config)) =>
          /\ ~initCall'[1].ok
          /\ initCall'[1].error \in ConfigErrors
          /\ adapterConfig' = adapterConfig
          /\ lifecycle' = lifecycle]_vars

\* C12: constructing the service with cacheMaxAge <= 0 fails at once with the
\* error 'Cache max age must be a positive number', and the failed construction
\* creates no sweep timer.
C12_NonPositiveMaxAgeRejected ==
    (svcConfig # <<>> /\ svcConfig[1].cacheMaxAge # <<>>
        /\ svcConfig[1].cacheMaxAge[1] <= 0) =>
        /\ svc = "failed"
        /\ svcError = "Cache max age must be a positive number"
        /\ ~timerActive
        /\ nextSweep = 0
        /\ contentCache = << >>

\* C12 witness: a construction with cacheMaxAge 0 has failed, and time has
\* passed without a timer.
C12_Witness ==
    /\ svcConfig # <<>>
    /\ svcConfig[1].cacheMaxAge = <<0>>
    /\ svc = "failed"
    /\ svcError # ""
    /\ ~timerActive
    /\ now > 0

\* the ids this instance has issued so far
IssuedIds == { uuidv4(n) : n \in 1..(nextUuid - 1) }

\* C13: getFullContent with an id this instance never issued (an id of another
\* instance included) returns null and leaves the cache as it is.
C13_UnknownIdAbsent ==
    \A id \in QueryIds \ IssuedIds :
        /\ Lookup(id) = <<>>
        /\ getFullContentCache(contentCache, id, now, cacheMaxAge) = contentCache

\* C13 witness: the cache holds an entry that its own id resolves, and the id
\* of another instance is answered with null.
C13_Witness ==
    /\ \E id \in IssuedIds : Lookup(id) # <<>>
    /\ ForeignId \notin IssuedIds
    /\ Lookup(ForeignId) = <<>>
    /\ getFullContentCache(contentCache, ForeignId, now, cacheMaxAge) = contentCache

\* C14: get_full_content fails with 'Content not found or expired' exactly when
\* the cache reports absence for the id; when the cache holds an unexpired
\* entry for the id, the tool returns that entry's content.
C14_NotFoundIffAbsent ==
    \A id \in QueryIds :
        LET response == handleGetFullContent(Lookup(id))
        IN  /\ response = [status |-> "error", text |-> <<"Content not found or expired">>]
                  <=> Lookup(id) = <<>>
            /\ Lookup(id) # <<>> => response = [status |-> "ok", text |-> Lookup(id)]

\* C15: however concurrent maybeSummarize calls interleave, the calls that
\* succeed receive distinct ids, and each id resolves to its own call's
\* content with its own call's timestamp (until expiry or teardown), also when
\* two calls have the same content.
C15_DistinctIds ==
    \A t \in Tasks :
        HasSummary(t) =>
            /\ \A u \in Tasks \ {t} :
                  HasSummary(u) => tasks[u].result.id # tasks[t].result.id
            /\ (~tasks[t].tornDown /\ now - tasks[t].storedAt <= cacheMaxAge) =>
                  /\ Lookup(tasks[t].result.id) = <<tasks[t].content>>
                  /\ contentCache[tasks[t].result.id].timestamp = tasks[t].storedAt

\* C15 witness: two calls with the same content have both succeeded, at
\* different times, and each id resolves to an entry with its own timestamp.
C15_Witness ==
    \E t \in Tasks, u \in Tasks :
        /\ t # u
        /\ HasSummary(t) /\ HasSummary(u)
        /\ tasks[t].content = tasks[u].content
        /\ tasks[t].storedAt < tasks[u].storedAt
        /\ tasks[t].result.id # tasks[u].result.id
        /\ Lookup(tasks[t].result.id) = <<tasks[t].content>>
        /\ Lookup(tasks[u].result.id) = <<tasks[u].content>>
        /\ contentCache[tasks[t].result.id].timestamp
              # contentCache[tasks[u].result.id].timestamp

\* a success response whose summary field is absent or malformed: an empty
\* content/choices/candidates array, a first element without text, or for
\* Anthropic a first block whose type is not "text"
Malformed(p, resp) ==
    /\ resp.kind = "response"
    /\ resp.ok
    /\ \/ resp.shape = "empty"
       \/ resp.text = undefined
       \/ p = "ANTHROPIC" /\ resp.shape = "nontext"

\* the errors that report an unexpected response format
FormatErrors ==
    {"Anthropic summarization failed: Unexpected response format from Anthropic API",
     "No summary was returned from the API"}

\* C16: no adapter's summarize returns successfully unless the response
\* carried a summary text in the expected field; on a response whose field is
\* absent or malformed it fails with an unexpected-response-format error
\* instead of returning an empty or undefined summary.
C16_MalformedRejected ==
    (adapterCall.pc = "done" /\ adapterCall.response # <<>>) =>
        /\ adapterCall.outcome.ok =>
              /\ ~Malformed(provider, adapterCall.response[1])
              /\ adapterCall.outcome.value \notin {undefined, ""}
        /\ Malformed(provider, adapterCall.response[1]) =>
              /\ ~adapterCall.outcome.ok
              /\ adapterCall.outcome.value \in FormatErrors

\* the prefix that names the provider in a wrapped error
ProviderPrefix(p) ==
    CASE p = "ANTHROPIC" -> "Anthropic summarization failed: "
      [] p = "GOOGLE"    -> "Gemini summarization failed: "
      [] OTHER           -> "OpenAI summarization failed: "

\* the message that names the stage at which the request of `resp` failed
StageMessage(resp) ==
    IF resp.kind = "reject"
    THEN "Network error: " \o resp.errmsg
    ELSE IF resp.errmsg # undefined
    THEN resp.errmsg
    ELSE "HTTP error " \o ToString(resp.status)

\* C17: for every provider, a summarize that fails in transport fails with a
\* network-error-prefixed message, one that got a non-success response fails
\* with the provider's error message if the response has one and with a
\* generic HTTP-status message otherwise, each wrapped in a provider-prefixed
\* error.
C17_FailureNamesStage ==
    (/\ adapterCall.pc = "done"
     /\ adapterCall.response # <<>>
     /\ ~adapterCall.response[1].ok) =>
        /\ ~adapterCall.outcome.ok
        /\ adapterCall.outcome.value =
              ProviderPrefix(provider) \o StageMessage(adapterCall.response[1])

\* C18: a summarize call on a Ready adapter sends exactly one upstream
\* request: when the request fails the call ends there, without a second
\* attempt, and the caller gets the failure.
C18_SingleAttempt ==
    (adapterCall.pc # "idle" /\ adapterCall.lifecycleAtCall = "Ready") =>
        /\ adapterCall.requests = 1
        /\ adapterCall.response # <<>> => adapterCall.pc = "done"
        /\ (adapterCall.response # <<>> /\ ~adapterCall.response[1].ok) =>
              ~adapterCall.outcome.ok

\* C18 witness: a call on a Ready adapter has ended in failure after its one
\* request failed.
C18_Witness ==
    /\ adapterCall.pc = "done"
    /\ adapterCall.lifecycleAtCall = "Ready"
    /\ adapterCall.response # <<>>
    /\ ~adapterCall.response[1].ok
    /\ adapterCall.requests = 1
    /\ ~adapterCall.outcome.ok

\* C19: for each prompt shape, constructPrompt with a hint outside the fixed
\* enumeration gives the output of the call without a hint, and with
\* output_format absent, "text" or unrecognized the output of the call without
\* an output_format.
C19_UnknownOptionsIgnored ==
    promptCall # <<>> =>
        LET args == promptCall[1]
            result == promptCall[2]
            prompt(options) ==
                constructPrompt(args.format, args.content, args.type, options)
        IN  /\ args.options.hint \notin HintKeys =>
                  result = prompt([args.options EXCEPT !.hint = undefined])
            /\ args.options.output_format \notin FormatKeys =>
                  result = prompt([args.options EXCEPT !.output_format = undefined])

\* C20: when main() runs with API_KEY set and a PROVIDER value outside
\* ANTHROPIC, OPENAI, OPENAI-COMPATIBLE and GOOGLE, startup ends with the error
\* "Unsupported provider: <value>" and exit code 1; no adapter class was
\* instantiated in place of the unknown one, no initialize ran, no service and
\* no sweep timer were created, and the server did not start.
C20_UnsupportedProviderFails ==
    (/\ main.pc # "start"
     /\ ~Falsy(main.env[1].PROVIDER)
     /\ ~Falsy(main.env[1].API_KEY)
     /\ main.env[1].PROVIDER \notin Providers)
    => /\ main.pc = "exited"
       /\ main.error = "Unsupported provider: " \o main.env[1].PROVIDER
       /\ main.exitCode = 1
       /\ provider = "none"
       /\ initCall = <<>>
       /\ lifecycle = "Uninitialized"
       /\ svc = "none"
       /\ ~timerActive
       /\ ~main.serverStarted

\* C20 as stated, for any startup with a PROVIDER value outside the four: it
\* ends with the "Unsupported provider" error. Startup with API_KEY unset ends
\* with "API_KEY environment variable is required" instead.
C20_AsStated ==
    (/\ main.pc # "start"
     /\ ~Falsy(main.env[1].PROVIDER)
     /\ main.env[1].PROVIDER \notin Providers)
    => /\ main.error = "Unsupported provider: " \o main.env[1].PROVIDER
       /\ provider = "none"
       /\ initCall = <<>>
       /\ svc = "none"
       /\ ~timerActive
       /\ ~main.serverStarted

\* main() has run with API_KEY set and PROVIDER = "COHERE"
C20_Witness ==
    /\ main.pc = "exited"
    /\ main.env[1].PROVIDER = "COHERE"
    /\ main.env[1].API_KEY = "key"
    /\ main.error = "Unsupported provider: COHERE"

\* the texts of EnvNumbers that denote a non-positive number
NonPositiveTexts == { s \in EnvNumbers : parseInt(s) # <<>> /\ parseInt(s)[1] <= 0 }

\* C21: when main() runs with a supported PROVIDER, API_KEY set, and MAX_TOKENS
\* or SUMMARIZATION_CACHE_MAX_AGE set to a non-positive number (zero or
\* negative), startup fails: the server is never started.
C21_NonPositiveSettingFails ==
    (/\ main.pc # "start"
     /\ main.env[1].PROVIDER \in Providers
     /\ ~Falsy(main.env[1].API_KEY)
     /\ \/ main.env[1].MAX_TOKENS \in NonPositiveTexts
        \/ main.env[1].SUMMARIZATION_CACHE_MAX_AGE \in NonPositiveTexts)
    => /\ main.pc # "running"
       /\ ~main.serverStarted

\* C22: when the server runs the OpenAI-compatible adapter and PROVIDER_BASE_URL
\* is set, the adapter's summarize requests go to the chat-completions path
\* under that base URL; when it is not set they go to the default public
\* endpoint.
C22_BaseUrlOverride ==
    (main.pc = "running" /\ provider = "OPENAI-COMPATIBLE")
    => RequestUrl(provider, adapterConfig[1]) =
          (IF Falsy(main.env[1].PROVIDER_BASE_URL)
           THEN "https://api.openai.com/v1"
           ELSE main.env[1].PROVIDER_BASE_URL) \o "/chat/completions"

\* the outcome the claimed order of tests gives a request
ExpectedRejection(request) ==
    IF Falsy(request.name)
    THEN <<[code |-> "InvalidRequest", message |-> "Missing tool name"]>>
    ELSE IF request.arguments = <<>>
    THEN <<[code |-> "InvalidRequest", message |-> "Missing arguments"]>>
    ELSE IF request.name \notin
            {"summarize_command", "summarize_files", "summarize_directory",
             "summarize_text", "get_full_content"}
    THEN <<[code |-> "MethodNotFound", message |-> "Unknown tool: " \o request.name]>>
    ELSE IF ~ShapeOk(request.name, request.arguments[1])
    THEN <<[code |-> "InvalidRequest",
            message |-> "Invalid arguments for " \o request.name]>>
    ELSE <<>>

\* C23: a tool call is rejected with InvalidRequest 'Missing tool name' when the
\* name is missing, else InvalidRequest 'Missing arguments' when the arguments
\* are missing, else MethodNotFound 'Unknown tool: <name>' when the name is not
\* a tool, else InvalidRequest 'Invalid arguments for <tool>' when the tool's
\* type guard refuses the arguments; a rejected call reaches no tool handler:
\* nothing is obtained to summarize, maybeSummarize and getFullContent are not
\* called, and the cache and the adapter are as before.
C23_DispatcherRejections ==
    [][\A t \in Tasks :
         (tasks[t].request = <<>> /\ tasks'[t].request # <<>>)
         => LET expected == ExpectedRejection(tasks'[t].request[1])
            IN  /\ tasks'[t].rejection = expected
                /\ expected # <<>> =>
                      /\ tasks'[t].pc = "done"
                      /\ tasks'[t].response =
                            [status |-> "error", text |-> <<expected[1].message>>]
                      /\ tasks'[t].result = NoResult
                      /\ tasks'[t].call = <<>>
                      /\ ~tasks'[t].requested
                      /\ tasks'[t].content = ""
                      /\ UNCHANGED <<cacheVars, adapterVars>>]_vars

\* a call with arguments for a name that is not a tool has been rejected, and
\* so has a call of a tool without arguments
C23_Witness ==
    \E t, u \in Tasks :
        /\ tasks[t].rejection = <<[code |-> "MethodNotFound",
                                   message |-> "Unknown tool: no_such_tool"]>>
        /\ tasks[t].request[1].arguments # <<>>
        /\ tasks[u].rejection = <<[code |-> "InvalidRequest",
                                   message |-> "Missing arguments"]>>
        /\ tasks[u].request[1].name = "no_such_tool"

\* C24: while the upstream call of task 1 never completes, every other task
\* that awaits its own upstream call completes, with the result of its own
\* call (a summary whose id retrieves its own content, or the adapter's
\* error), and task 1 is still waiting then; a getFullContent lookup stays
\* possible throughout.
C24_HangIsolated ==
    /\ \A t \in Tasks \ {HungTask} :
          (tasks[HungTask].pc = "awaiting" /\ tasks[t].pc = "awaiting")
          ~> (/\ tasks[HungTask].pc = "awaiting"
              /\ tasks[t].pc = "done"
              /\ tasks[t].result.status \in {"ok", "error"}
              /\ tasks[t].result.isSummarized =>
                    Lookup(tasks[t].result.id) = <<tasks[t].content>>)
    /\ [](tasks[HungTask].pc = "awaiting" =>
             \A id \in QueryIds : ENABLED GetFullContent(id))

\* task 1 is still waiting for its upstream while a later task has its summary
C24_Witness ==
    /\ tasks[HungTask].pc = "awaiting"
    /\ \E t \in Tasks \ {HungTask} :
          tasks[t].pc = "done" /\ tasks[t].result.isSummarized

\* C25: a getFullContent(id) on an entry that is present and expired removes
\* that entry and no other and returns null; on an unexpired entry or an
\* unknown id it leaves every id, content and timestamp of the cache as it was.
C25_LookupFrame ==
    [][\A id \in QueryIds :
         GetFullContent(id) =>
            IF id \in DOMAIN contentCache
               /\ now - contentCache[id].timestamp > cacheMaxAge
            THEN /\ getFullContent(contentCache, id, now, cacheMaxAge) = <<>>
                 /\ DOMAIN contentCache' = DOMAIN contentCache \ {id}
                 /\ \A j \in DOMAIN contentCache' : contentCache'[j] = contentCache[j]
            ELSE contentCache' = contentCache]_vars

\* an expired entry is gone though no sweep and no teardown has run since it
\* expired, so a lookup removed it, and another entry is still in the cache
C25_Witness ==
    \E t \in Tasks :
        /\ HasSummary(t)
        /\ ~tasks[t].tornDown
        /\ tasks[t].result.id \notin DOMAIN contentCache
        /\ nextSweep <= tasks[t].storedAt + cacheMaxAge
        /\ DOMAIN contentCache # {}

\* the time of the last sweep, when one has fired
LastSweep == nextSweep - cacheMaxAge

\* C26: a sweep evicts every entry with now - timestamp > maxAge, and every
\* entry that getFullContent would return at that instant is kept as it is.
C26_SweepMatchesLookup ==
    [][Sweep =>
         /\ \A j \in DOMAIN contentCache :
               now - contentCache[j].timestamp > cacheMaxAge
                  => j \notin DOMAIN contentCache'
         /\ \A j \in DOMAIN contentCache :
               getFullContent(contentCache, j, now, cacheMaxAge) # <<>>
                  => /\ j \in DOMAIN contentCache'
                     /\ contentCache'[j] = contentCache[j]]_vars

\* a sweep has fired when one entry was past expiry and another of age exactly
\* maxAge was not: the first is gone and the second is kept
C26_Witness ==
    \E t, u \in Tasks :
        /\ HasSummary(t) /\ HasSummary(u)
        /\ ~tasks[t].tornDown /\ ~tasks[u].tornDown
        /\ LastSweep - tasks[t].storedAt > cacheMaxAge
        /\ tasks[t].result.id \notin DOMAIN contentCache
        /\ LastSweep - tasks[u].storedAt = cacheMaxAge
        /\ tasks[u].result.id \in DOMAIN contentCache
        /\ now = LastSweep

\* C27: after any sequence of stores, lookups, clock advances and sweeps, a
\* getFullContent of any id returns the same from the cache that is swept
\* (at any time, late or not at all) as from the cache that is never swept.
C27_SweepInvisible ==
    \A id \in QueryIds :
        getFullContent(contentCache, id, now, cacheMaxAge)
           = getFullContent(noSweepCache, id, now, cacheMaxAge)

\* a sweep has removed an entry the unswept cache still holds, beside an entry
\* both caches return
C27_Witness ==
    /\ \E id \in DOMAIN noSweepCache : id \notin DOMAIN contentCache
    /\ \E id \in DOMAIN contentCache :
          getFullContent(contentCache, id, now, cacheMaxAge) # <<>>

\* C28: at the step where a cleanup() of the orchestrator returns, normally or
\* because the adapter's cleanup failed, the sweep timer is cancelled and the
\* cache is empty; and once every cleanup() called has returned, no sweep fires.
C28_NoTimerAfterCleanup ==
    [][/\ cleanupDone' > cleanupDone => (~timerActive' /\ contentCache' = << >>)
       /\ (cleanupDone > 0 /\ cleanupPending = 0) => ~Sweep]_vars

\* C29: when every path of a summarize_files call has run to its end, every
\* id in the cache is a 'full content ID' of the call's successful response;
\* a call that failed because one path failed has left no entry behind.
C29_NoOrphanEntries ==
    (\A t \in Tasks : tasks[t].pc = "done") =>
        LET response == FilesResponse(tasks)
        IN  DOMAIN contentCache \subseteq
               (IF response.status = "ok" THEN EmbeddedIds(response.text) ELSE {})

Installed(p, c) ==
    [apiKey |-> c.apiKey,
     model |-> IF c.model \in {undefined, ""}
               THEN (CASE p = "ANTHROPIC" -> "claude-3-5-sonnet-20241022"
                       [] p = "GOOGLE" -> "gemini-1.5-flash"
                       [] OTHER -> "gpt-4o-mini")
               ELSE c.model,
     maxTokens |-> IF c.maxTokens = <<>> THEN [whole |-> 1024, half |-> FALSE]
                   ELSE c.maxTokens[1]]

\* C31: when initialize(c2) has succeeded on an adapter that an earlier
\* initialize had configured, a summarize called on the Ready adapter sends
\* its request with c2's apiKey and builds it from a this.config that holds
\* c2's apiKey, model and maxTokens (defaults where c2 leaves them out) and
\* nothing of the earlier configuration.
C31_ReinitializeReplaces ==
    [][(/\ adapterCall.pc = "idle" /\ adapterCall'.pc # "idle"
        /\ lifecycle = "Ready"
        /\ initCall # <<>> /\ initCall[1].ok /\ initCall[1].before # <<>>)
       => /\ adapterCall'.pc = "awaiting"
          /\ adapterCall'.apiKey = <<initCall[1].config.apiKey>>
          /\ adapterConfig = <<Installed(provider, initCall[1].config)>>]_vars

\* a request is under way with the key of the second configuration, the first
\* one having had another key, model and maxTokens
C31_Witness ==
    /\ adapterCall.pc = "awaiting"
    /\ initCall # <<>> /\ initCall[1].ok /\ initCall[1].before # <<>>
    /\ adapterCall.apiKey = <<initCall[1].config.apiKey>>
    /\ adapterCall.apiKey[1] # initCall[1].before[1].apiKey
    /\ adapterConfig[1].model # initCall[1].before[1].model
    /\ adapterConfig[1].maxTokens # initCall[1].before[1].maxTokens

\* C32: an initialize that fails leaves the adapter as it was: this.config is
\* unchanged, so an adapter without configuration still has none (summarize
\* throws not-initialized) and a Ready adapter keeps its configuration.
C32_FailedInitializeFrame ==
    [][\A c \in ReinitConfigs :
         (DirectInitialize(c) /\ ~initCall'[1].ok)
         => /\ adapterConfig' = adapterConfig
            /\ lifecycle' = lifecycle
            /\ IsInitialized(adapterConfig') = IsInitialized(adapterConfig)]_vars

\* the last initialize failed on a Ready adapter, which still has the
\* configuration it had, and a summarize called since has sent its request
\* with the key of that configuration
C32_Witness ==
    /\ initCall # <<>> /\ ~initCall[1].ok
    /\ initCall[1].before # <<>> /\ adapterConfig = initCall[1].before
    /\ lifecycle = "Ready"
    /\ adapterCall.pc = "awaiting"
    /\ adapterCall.apiKey = <<adapterConfig[1].apiKey>>
    /\ adapterCall.apiKey # <<initCall[1].config.apiKey>>

\* C33: main() starts the server only after the awaited initialize has
\* succeeded, so a started server has a Ready, configured adapter; when
\* initialize fails, main() ends in its catch block with exit code 1 and the
\* server is never started.
C33_StartAfterInitialize ==
    /\ main.serverStarted
          => /\ main.pc = "running"
             /\ initCall # <<>> /\ initCall[1].ok
             /\ lifecycle = "Ready" /\ IsInitialized(adapterConfig)
             /\ svc = "constructed"
    /\ (initCall # <<>> /\ ~initCall[1].ok)
          => /\ ~main.serverStarted
             /\ main.pc \in {"initializing", "exited"}
             /\ main.pc = "exited" => main.exitCode = 1
    /\ main.pc = "exited" => ~ENABLED NextMain

\* the server has been started, after an initialize that succeeded
C33_Witness ==
    /\ main.pc = "running" /\ main.serverStarted
    /\ initCall # <<>> /\ initCall[1].ok
    /\ main.exitCode # 1

\* C34: the cleanup() that completes second (both SIGINT handlers having
\* called it) completes like the first: the cache is empty and the timer is
\* cleared after it, the timer was already cleared before it, and the adapter
\* is as the first call left it; calling the adapter's cleanup twice leaves
\* what calling it once leaves.
C34_CleanupIdempotent ==
    [][/\ (CleanupFinish /\ cleanupDone >= 1)
          => /\ contentCache' = << >> /\ ~timerActive' /\ ~timerActive
             /\ adapterConfig' = adapterConfig /\ lifecycle' = lifecycle
             /\ cleanupDone' = 2 /\ cleanupPending' = 0
       /\ Sigint => adapterConfig' = AdapterCleanup(provider, adapterConfig)]_vars

\* both cleanup() calls have completed, on a server whose cache had an entry
\* when the signal arrived
C34_Witness ==
    /\ cleanupDone = 2 /\ cleanupPending = 0
    /\ contentCache = << >> /\ ~timerActive
    /\ \E t \in Tasks : tasks[t].storedAt >= 0 /\ tasks[t].tornDown

\* C35: no step changes the content or the timestamp of an entry that is in
\* the cache before and after it: a store adds an entry under a new id, a
\* lookup or a sweep only removes entries, and a successful read leaves the
\* timestamp, and so the time of expiry, as it was. An entry in the cache is
\* still the content handed to maybeSummarize at the time it was stored.
C35_EntriesImmutable ==
    [][/\ \A id \in DOMAIN contentCache \cap DOMAIN contentCache' :
             contentCache'[id] = contentCache[id]
       /\ \A t \in Tasks :
             (HasSummary(t)' /\ tasks'[t].result.id \in DOMAIN contentCache')
                => contentCache'[tasks'[t].result.id] =
                      [content |-> tasks'[t].content, timestamp |-> tasks'[t].storedAt]]_vars

\* an entry stored earlier is in the cache, as it was stored, beside an entry
\* stored later
C35_Witness ==
    \E t, u \in Tasks :
        /\ HasSummary(t) /\ HasSummary(u)
        /\ tasks[t].result.id \in DOMAIN contentCache
        /\ tasks[u].result.id \in DOMAIN contentCache
        /\ contentCache[tasks[t].result.id].timestamp < now
        /\ contentCache[tasks[u].result.id].timestamp = now
        /\ tasks[t].result.id # tasks[u].result.id
        /\ tasks[t].storedAt < now /\ tasks[u].storedAt = now

\* C36: the service's charThreshold is the configured one whenever
\* SUMMARIZATION_CHAR_THRESHOLD supplies a non-negative integer, 0 included,
\* and 512 only when none is supplied.
C36_ConfiguredThreshold ==
    (svc = "constructed" /\ main.env # <<>>) =>
        LET supplied == parseInt(main.env[1].SUMMARIZATION_CHAR_THRESHOLD)
        IN  IF supplied # <<>> /\ supplied[1] >= 0
            THEN charThreshold = supplied[1]
            ELSE charThreshold = DefaultCharThreshold

\* the place of path t's heading in a response text
SectionStart(text, t) == CHOOSE i \in 1..Len(text) : text[i] = Paths[t]

\* C37: the text of a successful summarize_files response has exactly one
\* section per path, the sections stand in the order of args.paths, and the
\* section of a path shows the result of that path's own maybeSummarize,
\* whatever the order in which the per-file summarizations completed.
C37_SectionsInPathOrder ==
    ((\A t \in Tasks : tasks[t].pc = "done") /\ FilesResponse(tasks).status = "ok") =>
        LET text == FilesResponse(tasks).text
        IN  /\ \A t \in Tasks :
                   Cardinality({ i \in 1..Len(text) : text[i] = Paths[t] }) = 1
            /\ \A t \in Tasks :
                   LET i == SectionStart(text, t)
                       own == FormatResult(tasks[t].result)
                   IN  /\ Len(text) >= i + 2 + Len(own)
                       /\ text[i + 1] = ":\n"
                       /\ SubSeq(text, i + 2, i + 1 + Len(own)) = own
                       /\ text[i + 2 + Len(own)] = "\n"
            /\ \A t, u \in Tasks :
                   t < u => SectionStart(text, t) < SectionStart(text, u)

\* the call has succeeded with both files summarized, the second path's
\* summarization having completed before the first path's
C37_Witness ==
    /\ \A t \in Tasks : tasks[t].pc = "done" /\ tasks[t].tool = "summarize_files"
    /\ FilesResponse(tasks).status = "ok"
    /\ tasks[1].result.isSummarized /\ tasks[2].result.isSummarized
    /\ tasks[2].result.id = uuidv4(1) /\ tasks[1].result.id = uuidv4(2)

\* the lines of one kind that the loop over directory p wrote
LinesOf(lines, kind, p) ==
    { i \in 1..Len(lines) : lines[i].kind = kind /\ lines[i].dir = p }

\* C38: in a listing, the loop of a directory has written at most 100 file
\* lines and at most one '[N more files in this directory]' notice, the
\* listing has at most 1000 file lines in all, and no line comes from a
\* directory deeper than 5 levels below the listed one.
C38_ListingLimits ==
    listing # <<>> =>
        LET lines == listing[1].listing
            dirs == { lines[i].dir : i \in 1..Len(lines) }
        IN  /\ \A p \in dirs : Cardinality(LinesOf(lines, "file", p)) <= MAX_FILES_PER_DIR
            /\ Cardinality({ i \in 1..Len(lines) : lines[i].kind = "file" }) <= MAX_FILES
            /\ \A p \in dirs : Len(p) <= MAX_DEPTH
            /\ \A p \in dirs : Cardinality(LinesOf(lines, "more", p)) <= 1

====
